---- MODULE Spec2Model ----
(***************************************************************************)
(* MS4X Map Loader (src/maploader.pyw): the reconciliation of two symbol   *)
(* lists into the MapEntry table, the loading of the two firmware images,  *)
(* the include check boxes of the table and the export of the merged       *)
(* image, the two sliders and text boxes of the viewed byte window and the  *)
(* layout of the map picture.                                              *)
(*                                                                         *)
(* Python's None is the empty tuple and a present value v is <<v>>, so an  *)
(* optional field compares the way `is not None` and `==` do in the code.  *)
(* A dict is a sequence of records in insertion order (Python keeps that   *)
(* order and export_merged_binary and filter_maps depend on it).           *)
(***************************************************************************)
EXTENDS Integers, Sequences, FiniteSets, TLC

VARIABLES
    list_A,              \* self.list_A: descriptors of definition file A
    list_B,              \* self.list_B
    dict_A,              \* self.dict_A: title -> (start, end)
    dict_B,              \* self.dict_B
    map_entries,         \* self.map_entries, in insertion order
    green_count,         \* self.green_count
    yellow_count,        \* self.yellow_count
    red_count,           \* self.red_count
    binary_data_a,       \* self.binary_data_a: None or a bytearray
    binary_data_b,       \* self.binary_data_b
    table_rows,          \* self.table_widget: one record per displayed row
    map_to_row_dict,     \* self.map_to_row_dict: title -> row
    load_binary_a_button,\* isEnabled() of the three buttons
    load_binary_b_button,
    export_button,
    export_status,       \* how the last handler that ran left export_merged_binary
    merged_data,         \* the buffer export_merged_binary hands to the file, or None
    start_offset_slider, \* value() of the start slider, in steps of 16 bytes
    end_offset_slider,   \* value() of the end slider
    start_offset_box,    \* text() of the start box: the number it reads as, or None
    end_offset_box,      \* text() of the end box
    visualization_width, \* self._current_width
    visualization_height,\* self._current_height
    map_click,           \* the last on_map_clicked: its pixel and the address it hit
    map_hover,           \* the last on_map_hovered: its pixel and what it computed
    parse_error,         \* the exception the last handler left parse_xdf with, or "none"
    ctrl_pressed,        \* self.table_widget.ctrl_pressed
    check_handler        \* the calls of on_item_check_changed in progress

vars == <<list_A, list_B, dict_A, dict_B, map_entries, green_count, yellow_count,
          red_count, binary_data_a, binary_data_b, table_rows, map_to_row_dict,
          load_binary_a_button, load_binary_b_button, export_button,
          export_status, merged_data, start_offset_slider, end_offset_slider,
          start_offset_box, end_offset_box, visualization_width,
          visualization_height, map_click, map_hover, parse_error,
          ctrl_pressed, check_handler>>

\* The byte window: the two sliders and the two text boxes.
window_vars == <<start_offset_slider, end_offset_slider, start_offset_box, end_offset_box>>

\* The size of the picture.
surface_vars == <<visualization_width, visualization_height>>

\* The two symbol lists and the table made of them.
table_vars == <<list_A, list_B, dict_A, dict_B, map_entries, green_count,
                yellow_count, red_count, table_rows, map_to_row_dict>>

\* The two images and the buttons.
image_vars == <<binary_data_a, binary_data_b, load_binary_a_button,
                load_binary_b_button, export_button>>

----------------------------------------------------------------------------
(* Bounds of the model *)

\* Length of a firmware image. The program uses 512 * 1024 (lines 1438, 1465);
\* the model runs the same code on images of this many bytes.
BinSize == 4

\* Longest descriptor list a definition file yields.
MaxLen == 2

\* Number of byte addresses the window can show. The program uses 524288
\* (the sliders run from 0 to 524287 // 16, lines 397 and 402).
ViewSize == 64

\* Largest width and height of the picture, in pixels.
MaxSide == 9

\* The height of a tall picture, in pixels.
TallHeight == 850

\* The least width of the picture, line 746.
MinWidth == 50

\* Bytes per step of a slider (lines 397, 1170, 1193).
Granule == 16

----------------------------------------------------------------------------
(* Optional values *)

None == <<>>

Some(v) == <<v>>

Val(o) == o[1]

Min(a, b) == IF a <= b THEN a ELSE b

----------------------------------------------------------------------------
(* Descriptors: the dicts parse_xdf appends to `maps` *)

Descriptor(t, s, z, d) ==
    [title |-> t, start |-> s, end |-> s + z, size |-> z, description |-> d]

Descriptions == {"d"}

\* The descriptors with a title in T, a start in S and a size in Z.
DescriptorsOf(T, S, Z) ==
    {Descriptor(t, s, z, d) : t \in T, s \in S, z \in Z, d \in Descriptions}

\* parse_xdf ends with maps.sort(key=start): the lists it returns are ascending
\* by start.
IsSortedByStart(l) ==
    \A i \in 1..Len(l) : \A j \in 1..Len(l) : i < j => l[i].start <= l[j].start

SeqsUpTo(D, n) == UNION {[1..k -> D] : k \in 0..n}

\* The lists parse_xdf can return for documents declaring symbols of D.
ParsedLists(D) == {l \in SeqsUpTo(D, MaxLen) : IsSortedByStart(l)}

\* An attribute of an element as element.get() and int() see it: a text
\* that int() reads as the number n in the base the code asks for, no
\* attribute (get() returns None or the default), or a text int() refuses.
Num(n) == [kind |-> "number", value |-> n]

Missing == [kind |-> "missing", value |-> 0]

Garbled == [kind |-> "garbled", value |-> 0]

\* The outcome of a computation that can raise: the exception it raised
\* ("none" when it returned) and the value it returned.
Returned(v) == [raised |-> "none", value |-> v]

Raised(exception) == [raised |-> exception, value |-> 0]

\* int(element.get(name), 16) and int(element.get(name)), lines 548-549,
\* 560-561, 573-574: int(None) and int(None, 16) raise TypeError, a text
\* that is no number raises ValueError.
int(attribute) ==
    CASE attribute.kind = "number" -> Returned(attribute.value)
      [] attribute.kind = "missing" -> Raised("TypeError")
      [] attribute.kind = "garbled" -> Raised("ValueError")

\* int(element.get(name, 1)), lines 550-551.
int_or_1(attribute) ==
    IF attribute.kind = "missing" THEN Returned(1) ELSE int(attribute)

\* Lines 510-519 and 522-531: an attribute of BASEOFFSET that is absent,
\* empty or no number counts 0 (the except clause keeps the initial 0).
int_or_0(attribute) ==
    IF attribute.kind = "number" THEN attribute.value ELSE 0

\* The elements of a document. An XDFTABLE (with its z axis) or an
\* XDFCONSTANT has an EMBEDDEDDATA element or none; an XDFPATCHENTRY has
\* its attributes itself.
EmbeddedData(address, bits, rows, cols) ==
    [mmedaddress |-> address, mmedelementsizebits |-> bits,
     mmedrowcount |-> rows, mmedcolcount |-> cols]

Symbol(t, d, embedded_data) ==
    [title |-> t, description |-> d, embedded_data |-> embedded_data]

PatchEntry(t, d, address, datasize) ==
    [title |-> t, description |-> d, address |-> address, datasize |-> datasize]

BaseOffset(offset, subtract) == [offset |-> offset, subtract |-> subtract]

\* A definition document as parse_xdf sees it: not well-formed XML
\* (ET.parse raises ParseError, line 499), or a root with a BASEOFFSET
\* element or none and the XDFTABLE, XDFCONSTANT and XDFPATCHENTRY
\* elements in the order findall() yields them.
XdfDocument(baseoffset, tables, constants, patches) ==
    [wellformed |-> TRUE, baseoffset |-> baseoffset, tables |-> tables,
     constants |-> constants, patches |-> patches]

Malformed ==
    [wellformed |-> FALSE, baseoffset |-> None, tables |-> <<>>,
     constants |-> <<>>, patches |-> <<>>]

\* The document with the base offset `offset` that declares the descriptors
\* of `maps` as constants, in that order.
Document(offset, maps) ==
    XdfDocument(Some(BaseOffset(Num(offset), Missing)), <<>>,
                [i \in 1..Len(maps) |->
                    Symbol(maps[i].title, maps[i].description,
                           Some(EmbeddedData(Num(maps[i].start - offset),
                                             Num(8 * maps[i].size),
                                             Missing, Missing)))],
                <<>>)

\* The documents with a base offset in O declaring a list of L, and the
\* malformed one.
Documents(O, L) == {Document(o, l) : o \in O, l \in L} \cup {Malformed}

\* Lines 505-534: the base offset of a well-formed document.
base_offset(doc) ==
    IF doc.baseoffset = None THEN 0
    ELSE int_or_0(Val(doc.baseoffset).offset) - int_or_0(Val(doc.baseoffset).subtract)

\* Lines 540-553: what the loop over the tables does with one table: nothing
\* (no EMBEDDEDDATA), an exception, or a descriptor appended to maps.
ParseTable(offset, table) ==
    IF table.embedded_data = None THEN Returned(<<>>)
    ELSE LET data == Val(table.embedded_data)
             address == int(data.mmedaddress)
             bits == int(data.mmedelementsizebits)
             rowcount == int_or_1(data.mmedrowcount)
             colcount == int_or_1(data.mmedcolcount)
         IN CASE address.raised # "none" -> Raised(address.raised)
              [] bits.raised # "none" -> Raised(bits.raised)
              [] rowcount.raised # "none" -> Raised(rowcount.raised)
              [] colcount.raised # "none" -> Raised(colcount.raised)
              [] OTHER ->
                  Returned(<<Descriptor(table.title, offset + address.value,
                                        rowcount.value * colcount.value
                                            * (bits.value \div 8),
                                        table.description)>>)

\* Lines 554-562: the same for one constant.
ParseConstant(offset, constant) ==
    IF constant.embedded_data = None THEN Returned(<<>>)
    ELSE LET data == Val(constant.embedded_data)
             address == int(data.mmedaddress)
             bits == int(data.mmedelementsizebits)
         IN CASE address.raised # "none" -> Raised(address.raised)
              [] bits.raised # "none" -> Raised(bits.raised)
              [] OTHER ->
                  Returned(<<Descriptor(constant.title, offset + address.value,
                                        bits.value \div 8,
                                        constant.description)>>)

\* Lines 565-590: the same for one patch entry. The keys 'type',
\* 'patchdata' and 'basedata' of its dict are read by no code of the window.
ParsePatchEntry(offset, entry) ==
    LET address == int(entry.address)
        datasize == int(entry.datasize)
    IN CASE address.raised # "none" -> Raised(address.raised)
         [] datasize.raised # "none" -> Raised(datasize.raised)
         [] OTHER ->
             Returned(<<Descriptor(entry.title, offset + address.value,
                                   datasize.value, entry.description)>>)

\* The outcomes of the three loops, in the order the loops run.
ParsedElements(doc) ==
    LET offset == base_offset(doc)
    IN [i \in 1..Len(doc.tables) |-> ParseTable(offset, doc.tables[i])]
       \o [i \in 1..Len(doc.constants) |-> ParseConstant(offset, doc.constants[i])]
       \o [i \in 1..Len(doc.patches) |-> ParsePatchEntry(offset, doc.patches[i])]

\* The exception parse_xdf leaves with, "none" when it returns: the try of
\* line 498 has the one clause except ET.ParseError (line 593), which
\* returns; an exception of int() in one of the loops leaves the function.
parse_xdf_raises(doc) ==
    IF ~doc.wellformed THEN "none"
    ELSE LET outcomes == ParsedElements(doc)
             failed == {i \in 1..Len(outcomes) : outcomes[i].raised # "none"}
         IN IF failed = {} THEN "none"
            ELSE outcomes[CHOOSE i \in failed : \A j \in failed : i <= j].raised

\* maps after the three loops, when none of them raised.
RECURSIVE EmittedMaps(_, _)
EmittedMaps(outcomes, i) ==
    IF i > Len(outcomes) THEN <<>>
    ELSE outcomes[i].value \o EmittedMaps(outcomes, i + 1)

\* list.sort(key=start) keeps the order of the items with equal keys.
RECURSIVE InsertByStartBeforeTies(_, _)
InsertByStartBeforeTies(sorted, m) ==
    IF sorted = <<>> THEN <<m>>
    ELSE IF m.start <= sorted[1].start THEN <<m>> \o sorted
    ELSE <<sorted[1]>> \o InsertByStartBeforeTies(Tail(sorted), m)

RECURSIVE InsertByStart(_, _)
InsertByStart(sorted, m) ==
    IF sorted = <<>> THEN <<m>>
    ELSE IF m.start < sorted[1].start THEN <<m>> \o sorted
    ELSE <<sorted[1]>> \o InsertByStart(Tail(sorted), m)

\* Line 591: maps.sort(key=lambda x: x['start']).
RECURSIVE SortByStart(_, _, _)
SortByStart(maps, i, acc) ==
    IF i > Len(maps) THEN acc
    ELSE SortByStart(maps, i + 1, InsertByStart(acc, maps[i]))

\* The list parse_xdf returns when it returns, lines 592 and 595.
parse_xdf(doc) ==
    IF doc.wellformed
    THEN SortByStart(EmittedMaps(ParsedElements(doc), 1), 1, <<>>)
    ELSE <<>>

----------------------------------------------------------------------------
(* MapEntry *)

MapEntry(t, aa, sa, da, ab, sb, db) ==
    [title |-> t, address_a |-> aa, size_a |-> sa, description_a |-> da,
     address_b |-> ab, size_b |-> sb, description_b |-> db,
     category |-> "red", checked |-> FALSE, row_index |-> -1, second_name |-> None]

Keys(entries) == {entries[i].title : i \in 1..Len(entries)}

\* Position of the entry keyed by t (t is a key).
IndexOf(entries, t) == CHOOSE i \in 1..Len(entries) : entries[i].title = t

DictOf(l) ==
    [t \in {l[i].title : i \in 1..Len(l)} |->
        LET last == CHOOSE i \in 1..Len(l) :
                        /\ l[i].title = t
                        /\ \A j \in 1..Len(l) : l[j].title = t => j <= i
        IN <<l[last].start, l[last].end>>]

----------------------------------------------------------------------------
(* update_map_entries_from_files: the reconciliation *)

\* Lines 637-646: one A-only entry per title of list_A, the first descriptor
\* of a title wins.
RECURSIVE SeedFromA(_, _, _)
SeedFromA(listA, i, acc) ==
    IF i > Len(listA) THEN acc
    ELSE LET map_a == listA[i] IN
         SeedFromA(listA, i + 1,
             IF map_a.title \in Keys(acc) THEN acc
             ELSE Append(acc, MapEntry(map_a.title, Some(map_a.start), Some(map_a.size),
                                       map_a.description, None, None, "")))

\* TitleMatch comparing the addresses only.
TitleMatchIgnoringSize(e, map_b, dictA) ==
    LET withB == [e EXCEPT !.address_b = Some(map_b.start),
                           !.size_b = Some(map_b.size),
                           !.description_b = map_b.description,
                           !.checked = TRUE]
    IN IF map_b.title \notin DOMAIN dictA
       THEN [withB EXCEPT !.category = "red", !.checked = FALSE]
       ELSE IF withB.address_a # Some(map_b.start)
       THEN [withB EXCEPT !.category = "yellow"]
       ELSE [withB EXCEPT !.category = "green"]

\* TitleMatch without the test of lines 660-662 for a title file A lacks.
TitleMatchWithoutDictA(e, map_b, dictA) ==
    LET withB == [e EXCEPT !.address_b = Some(map_b.start),
                           !.size_b = Some(map_b.size),
                           !.description_b = map_b.description,
                           !.checked = TRUE]
    IN IF withB.address_a # Some(map_b.start) \/ withB.size_a # Some(map_b.size)
       THEN [withB EXCEPT !.category = "yellow"]
       ELSE [withB EXCEPT !.category = "green"]

\* TitleMatch that leaves the checked flag as it finds it.
TitleMatchKeepingChecked(e, map_b, dictA) ==
    LET withB == [e EXCEPT !.address_b = Some(map_b.start),
                           !.size_b = Some(map_b.size),
                           !.description_b = map_b.description]
    IN IF map_b.title \notin DOMAIN dictA
       THEN [withB EXCEPT !.category = "red", !.checked = FALSE]
       ELSE IF withB.address_a # Some(map_b.start) \/ withB.size_a # Some(map_b.size)
       THEN [withB EXCEPT !.category = "yellow"]
       ELSE [withB EXCEPT !.category = "green"]

\* Lines 653-666: the title of map_b is a key of new_entries.
TitleMatch(e, map_b, dictA) ==
    LET withB == [e EXCEPT !.address_b = Some(map_b.start),
                           !.size_b = Some(map_b.size),
                           !.description_b = map_b.description,
                           !.checked = TRUE]
    IN IF map_b.title \notin DOMAIN dictA
       THEN [withB EXCEPT !.category = "red", !.checked = FALSE]
       ELSE IF withB.address_a # Some(map_b.start) \/ withB.size_a # Some(map_b.size)
       THEN [withB EXCEPT !.category = "yellow"]
       ELSE [withB EXCEPT !.category = "green"]

\* Lines 670-674: indexes of list_A holding the same (start, size) under
\* another title; the loop breaks at the first one.
AliasCandidates(listA, map_b) ==
    {i \in 1..Len(listA) : /\ listA[i].start = map_b.start
                           /\ listA[i].size = map_b.size
                           /\ listA[i].title # map_b.title}

\* MatchByAddress taking the last candidate of list_A.
MatchByAddressLast(listA, map_b) ==
    LET c == AliasCandidates(listA, map_b)
    IN IF c = {} THEN None
       ELSE Some(listA[CHOOSE i \in c : \A j \in c : i >= j])

MatchByAddress(listA, map_b) ==
    LET c == AliasCandidates(listA, map_b)
    IN IF c = {} THEN None
       ELSE Some(listA[CHOOSE i \in c : \A j \in c : i <= j])

\* AliasMatch that leaves the checked flag as it finds it.
AliasMatchUnchecked(e, map_b) ==
    [e EXCEPT !.address_b = Some(map_b.start),
              !.size_b = Some(map_b.size),
              !.description_b = map_b.description,
              !.category = "yellow",
              !.second_name = Some(map_b.title)]

\* AliasMatch that records no second_name.
AliasMatchWithoutName(e, map_b) ==
    [e EXCEPT !.address_b = Some(map_b.start),
              !.size_b = Some(map_b.size),
              !.description_b = map_b.description,
              !.category = "yellow",
              !.checked = TRUE]

\* Lines 680-685: map_b joins the entry of the A descriptor it aliases.
AliasMatch(e, map_b) ==
    [e EXCEPT !.address_b = Some(map_b.start),
              !.size_b = Some(map_b.size),
              !.description_b = map_b.description,
              !.category = "yellow",
              !.checked = TRUE,
              !.second_name = Some(map_b.title)]

\* Lines 688-693: a B-only entry.
NewEntryB(map_b) ==
    MapEntry(map_b.title, None, None, "", Some(map_b.start), Some(map_b.size),
             map_b.description)

\* ProcessB that makes no entry for a descriptor nothing matches.
ProcessBDroppingUnmatched(acc, listA, dictA, map_b) ==
    IF map_b.title \in Keys(acc)
    THEN LET k == IndexOf(acc, map_b.title)
         IN [acc EXCEPT ![k] = TitleMatch(acc[k], map_b, dictA)]
    ELSE LET match_by_address == MatchByAddress(listA, map_b) IN
         IF match_by_address # None /\ Val(match_by_address).title \in Keys(acc)
         THEN LET k == IndexOf(acc, Val(match_by_address).title)
              IN [acc EXCEPT ![k] = AliasMatch(acc[k], map_b)]
         ELSE acc

\* Lines 650-693: the body of the loop over list_B.
ProcessB(acc, listA, dictA, map_b) ==
    IF map_b.title \in Keys(acc)
    THEN LET k == IndexOf(acc, map_b.title)
         IN [acc EXCEPT ![k] = TitleMatch(acc[k], map_b, dictA)]
    ELSE LET match_by_address == MatchByAddress(listA, map_b) IN
         IF match_by_address # None
         THEN IF Val(match_by_address).title \in Keys(acc)
              THEN LET k == IndexOf(acc, Val(match_by_address).title)
                   IN [acc EXCEPT ![k] = AliasMatch(acc[k], map_b)]
              ELSE acc
         ELSE Append(acc, NewEntryB(map_b))

RECURSIVE MergeFromB(_, _, _, _, _)
MergeFromB(listA, dictA, listB, i, acc) ==
    IF i > Len(listB) THEN acc
    ELSE MergeFromB(listA, dictA, listB, i + 1, ProcessB(acc, listA, dictA, listB[i]))

\* Lines 634-701: new_entries.
update_map_entries_from_files(listA, dictA, listB) ==
    MergeFromB(listA, dictA, listB, 1, SeedFromA(listA, 1, <<>>))

\* update_color_counts that takes an entry for red only when it has an A side.
update_color_counts_a_side(entries, c) ==
    Cardinality({i \in 1..Len(entries) :
                    /\ entries[i].category = c
                    /\ (c = "red" => entries[i].address_a # None)})

\* update_color_counts, lines 1615-1623.
update_color_counts(entries, c) ==
    Cardinality({i \in 1..Len(entries) : entries[i].category = c})

----------------------------------------------------------------------------
(* filter_maps: the displayed table *)

\* MapEntry.sort_address, lines 240-247.
sort_address(e) ==
    IF e.address_a # None THEN Val(e.address_a)
    ELSE IF e.address_b # None THEN Val(e.address_b)
    ELSE 0

\* Lines 966-968: the category filter of an entry.
Shown(e, show_green, show_yellow, show_red) ==
    ~ \/ (e.category = "green" /\ ~show_green)
      \/ (e.category = "yellow" /\ ~show_yellow)
      \/ (e.category = "red" /\ ~show_red)

\* Lines 959-974: row_index of every entry, the row it gets before sorting
\* or -1 when it is filtered out.
RECURSIVE SetRowIndex(_, _, _, _, _, _)
SetRowIndex(entries, i, row, show_green, show_yellow, show_red) ==
    IF i > Len(entries) THEN entries
    ELSE IF Shown(entries[i], show_green, show_yellow, show_red)
    THEN SetRowIndex([entries EXCEPT ![i].row_index = row], i + 1, row + 1,
                     show_green, show_yellow, show_red)
    ELSE SetRowIndex([entries EXCEPT ![i].row_index = -1], i + 1, row,
                     show_green, show_yellow, show_red)

\* Lines 977-1014: the items of one row: check box, key of column 1, the two
\* name columns.
RowOf(e) ==
    [check |-> e.checked,
     sort_value |-> sort_address(e),
     file_a |-> IF e.address_a # None THEN e.title ELSE "",
     file_b |-> IF e.second_name # None THEN Val(e.second_name)
                ELSE IF e.address_b # None THEN e.title ELSE ""]

RECURSIVE RowsBeforeSort(_, _)
RowsBeforeSort(entries, i) ==
    IF i > Len(entries) THEN <<>>
    ELSE IF entries[i].row_index >= 0
    THEN <<RowOf(entries[i])>> \o RowsBeforeSort(entries, i + 1)
    ELSE RowsBeforeSort(entries, i + 1)

\* Line 1023: sortByColumn(1, ascending), a stable sort on sort_value.
RECURSIVE InsertRow(_, _)
InsertRow(sorted, r) ==
    IF sorted = <<>> THEN <<r>>
    ELSE IF sorted[Len(sorted)].sort_value <= r.sort_value THEN Append(sorted, r)
    ELSE Append(InsertRow(SubSeq(sorted, 1, Len(sorted) - 1), r), sorted[Len(sorted)])

RECURSIVE SortRows(_, _, _)
SortRows(rows, i, acc) ==
    IF i > Len(rows) THEN acc ELSE SortRows(rows, i + 1, InsertRow(acc, rows[i]))

\* update_map_to_row_mapping, lines 1292-1304 (the second definition of that
\* name, which is the one the class keeps). Rows are numbered from 0.
RECURSIVE update_map_to_row_mapping(_, _, _)
update_map_to_row_mapping(rows, i, acc) ==
    IF i > Len(rows) THEN acc
    ELSE LET r == rows[i]
             withA == IF r.file_a # ""
                      THEN [t \in DOMAIN acc \cup {r.file_a} |->
                               IF t = r.file_a THEN i - 1 ELSE acc[t]]
                      ELSE acc
             withB == IF r.file_b # "" /\ r.file_b \notin DOMAIN withA
                      THEN [t \in DOMAIN withA \cup {r.file_b} |->
                               IF t = r.file_b THEN i - 1 ELSE withA[t]]
                      ELSE withA
         IN update_map_to_row_mapping(rows, i + 1, withB)

EmptyDict == [t \in {} |-> 0]

----------------------------------------------------------------------------
(* The check boxes: on_item_check_changed and update_linked_map_checks.    *)
(* A handler state is [entries, rows]. QTableWidgetItem.setCheckState      *)
(* emits itemChanged, synchronously, when it changes the state of the box, *)
(* and on_item_check_changed is connected to that signal: the propagation  *)
(* of update_linked_map_checks re-enters the handler for every displayed   *)
(* row whose box it flips, while the signal is connected (`connected`; it  *)
(* is disconnected at lines 1583-1607). The handler returns at once while  *)
(* the table believes the Ctrl key held (`ctrl_pressed`, line 1045).       *)

\* The state of a handler that starts with the entries and rows given.
HandlerState(entries, rows, connected, ctrl) ==
    [entries |-> entries, rows |-> rows, connected |-> connected, ctrl_pressed |-> ctrl]

SetChecked(st, title, v) ==
    IF title # "" /\ title \in Keys(st.entries)
    THEN [st EXCEPT !.entries[IndexOf(st.entries, title)].checked = v]
    ELSE st

\* Lines 1100-1101.
Linked(e, start_address_a, start_address_b) ==
    \/ (start_address_a # None /\ e.address_a = start_address_a)
    \/ (start_address_b # None /\ e.address_b = start_address_b)

RECURSIVE on_item_check_changed(_, _, _)
RECURSIVE LinkedLoop(_, _, _, _, _, _, _)

\* Lines 1098-1112: the loop of update_linked_map_checks from entry i on.
LinkedLoop(st, rowOf, map_title, checked, start_address_a, start_address_b, i) ==
    IF i > Len(st.entries) THEN st
    ELSE LET e == st.entries[i] IN
         IF e.title # map_title /\ Linked(e, start_address_a, start_address_b)
         THEN LET st1 == [st EXCEPT !.entries[i].checked = checked]
                  row == rowOf[e.title]
                  st2 == IF e.row_index >= 0 /\ st1.rows[row + 1].check # checked
                         THEN IF st1.connected
                              THEN on_item_check_changed(
                                       [st1 EXCEPT !.rows[row + 1].check = checked],
                                       rowOf, row)
                              ELSE [st1 EXCEPT !.rows[row + 1].check = checked]
                         ELSE st1
              IN LinkedLoop(st2, rowOf, map_title, checked,
                            start_address_a, start_address_b, i + 1)
         ELSE LinkedLoop(st, rowOf, map_title, checked,
                         start_address_a, start_address_b, i + 1)

\* Lines 1088-1112.
update_linked_map_checks(st, rowOf, map_title, checked) ==
    IF map_title \notin Keys(st.entries) THEN st
    ELSE LET target_map == st.entries[IndexOf(st.entries, map_title)]
         IN LinkedLoop(st, rowOf, map_title, checked,
                       target_map.address_a, target_map.address_b, 1)

\* Lines 1044-1073: the handler for the box of `row`, whose state was just
\* changed.
on_item_check_changed(st, rowOf, row) ==
    LET item == st.rows[row + 1]
        file_a_title == item.file_a
        file_b_title == item.file_b
        st1 == SetChecked(st, file_a_title, item.check)
        st2 == IF file_b_title # file_a_title
               THEN SetChecked(st1, file_b_title, item.check) ELSE st1
    IN IF st.ctrl_pressed THEN st
       ELSE IF file_a_title # ""
       THEN update_linked_map_checks(st2, rowOf, file_a_title, item.check)
       ELSE st2

----------------------------------------------------------------------------
(* on_item_check_changed and update_linked_map_checks one loop iteration   *)
(* at a time. check_handler.stack holds one frame for every call of        *)
(* update_linked_map_checks in progress, the innermost last: the title and  *)
(* value it was called with, the two addresses it read at lines 1094-1095   *)
(* and the index i of the entry its loop comes to next.                     *)
(* check_handler.notifications counts the itemChanged notifications handled *)
(* since the click, check_handler.written collects the values stored into   *)
(* checked flags since the click.                                           *)

IdleHandler == [stack |-> <<>>, notifications |-> 0, written |-> {}]

\* Line 1103 with the value stored toggled instead of assigned.
LinkedWriteToggling(entries, i, checked) ==
    [entries EXCEPT ![i].checked = ~@]

\* Line 1103: entry.checked = checked.
LinkedWrite(entries, i, checked) ==
    [entries EXCEPT ![i].checked = checked]

\* Lines 1044-1073 and 1090-1095: on_item_check_changed is notified of the
\* box of `row`, whose state was just changed: it writes the flags of the
\* entries the row names and calls update_linked_map_checks, which starts
\* its loop. The result is the entries and the handler after that.
EnterHandler(h, entries, rows, row) ==
    LET item == rows[row + 1]
        st1 == SetChecked([entries |-> entries], item.file_a, item.check)
        st2 == IF item.file_b # item.file_a
               THEN SetChecked(st1, item.file_b, item.check) ELSE st1
        wrote == \/ (item.file_a # "" /\ item.file_a \in Keys(entries))
                 \/ (item.file_b # "" /\ item.file_b # item.file_a
                        /\ item.file_b \in Keys(entries))
        target_map == st2.entries[IndexOf(st2.entries, item.file_a)]
    IN [entries |-> st2.entries,
        handler |->
            [stack |-> IF item.file_a # "" /\ item.file_a \in Keys(entries)
                       THEN Append(h.stack,
                                   [map_title |-> item.file_a,
                                    checked |-> item.check,
                                    start_address_a |-> target_map.address_a,
                                    start_address_b |-> target_map.address_b,
                                    i |-> 1])
                       ELSE h.stack,
             notifications |-> h.notifications + 1,
             written |-> IF wrote THEN h.written \cup {item.check} ELSE h.written]]

\* Lines 1587-1604 of toggle_checkboxes_in_selected_rows: the loop over the
\* selected rows that are left, in ascending order.
RECURSIVE ToggleRows(_, _, _, _)
ToggleRows(st, rowOf, rows_left, new_state) ==
    IF rows_left = {} THEN st
    ELSE LET row == CHOOSE r \in rows_left : \A q \in rows_left : r <= q
             file_a_title == st.rows[row + 1].file_a
             file_b_title == st.rows[row + 1].file_b
             st0 == [st EXCEPT !.rows[row + 1].check = new_state]
             st1 == SetChecked(st0, file_a_title, new_state)
             st2 == IF file_b_title # file_a_title
                    THEN SetChecked(st1, file_b_title, new_state) ELSE st1
             st3 == IF file_a_title # ""
                    THEN update_linked_map_checks(st2, rowOf, file_a_title, new_state)
                    ELSE st2
         IN ToggleRows(st3, rowOf, rows_left \ {row}, new_state)

\* toggle_checkboxes_in_selected_rows, lines 1559-1610, with the rows
\* selected_rows selected: itemChanged is disconnected around the loop.
toggle_checkboxes_in_selected_rows(st, rowOf, selected_rows, clicked_row) ==
    IF selected_rows = {} THEN st
    ELSE LET first_row == CHOOSE r \in selected_rows : \A q \in selected_rows : r <= q
             new_state == IF clicked_row \in selected_rows
                          THEN st.rows[clicked_row + 1].check
                          ELSE st.rows[first_row + 1].check
             done == ToggleRows([st EXCEPT !.connected = FALSE], rowOf,
                                selected_rows, new_state)
         IN [done EXCEPT !.connected = TRUE]

----------------------------------------------------------------------------
(* Firmware images *)

\* NormalizeBinary that keeps a longer file whole.
NormalizeBinaryNoTruncate(data) ==
    IF Len(data) < BinSize
    THEN data \o [i \in 1..(BinSize - Len(data)) |-> 0]
    ELSE data

\* NormalizeBinary that pads one byte too few.
NormalizeBinaryShortPad(data) ==
    IF Len(data) # BinSize
    THEN IF Len(data) < BinSize
         THEN data \o [i \in 1..(BinSize - Len(data) - 1) |-> 0]
         ELSE SubSeq(data, 1, BinSize)
    ELSE data

\* Lines 1438-1444 and 1465-1471: pad with zeros or truncate.
NormalizeBinary(data) ==
    IF Len(data) # BinSize
    THEN IF Len(data) < BinSize
         THEN data \o [i \in 1..(BinSize - Len(data)) |-> 0]
         ELSE SubSeq(data, 1, BinSize)
    ELSE data

\* Python's index into a sequence of n items: a negative index counts from
\* the end; None when it raises IndexError.
PyIndex(n, i) ==
    IF i >= 0 /\ i < n THEN Some(i)
    ELSE IF i < 0 /\ i + n >= 0 THEN Some(i + n)
    ELSE None

\* Mergeable without the comparison of the two sizes.
MergeableAnySize(entry) ==
    /\ entry.checked
    /\ entry.address_a # None /\ entry.size_a # None
    /\ entry.address_b # None /\ entry.size_b # None

\* Line 1148.
Mergeable(entry) ==
    /\ entry.checked
    /\ entry.address_a # None /\ entry.size_a # None
    /\ entry.address_b # None /\ entry.size_b # None
    /\ entry.size_a = entry.size_b

\* Line 1152.
FitsLength(entry, len_a, len_merged) ==
    /\ Val(entry.address_a) + Val(entry.size_a) <= len_a
    /\ Val(entry.address_b) + Val(entry.size_a) <= len_merged

\* CopyBytes reading every byte from start_addr.
RECURSIVE CopyBytesSameSource(_, _, _, _, _, _)
CopyBytesSameSource(m, data_a, start_addr, target_addr, size, i) ==
    IF i >= size \/ m.raised THEN m
    ELSE LET src == PyIndex(Len(data_a), start_addr)
             dst == PyIndex(Len(m.data), target_addr + i)
         IN IF src = None \/ dst = None
            THEN [m EXCEPT !.raised = TRUE]
            ELSE CopyBytesSameSource([m EXCEPT !.data[Val(dst) + 1] = data_a[Val(src) + 1]],
                                     data_a, start_addr, target_addr, size, i + 1)

\* Lines 1154-1155: the copy loop from byte i on. m is [data, raised].
RECURSIVE CopyBytes(_, _, _, _, _, _)
CopyBytes(m, data_a, start_addr, target_addr, size, i) ==
    IF i >= size \/ m.raised THEN m
    ELSE LET src == PyIndex(Len(data_a), start_addr + i)
             dst == PyIndex(Len(m.data), target_addr + i)
         IN IF src = None \/ dst = None
            THEN [m EXCEPT !.raised = TRUE]
            ELSE CopyBytes([m EXCEPT !.data[Val(dst) + 1] = data_a[Val(src) + 1]],
                           data_a, start_addr, target_addr, size, i + 1)

\* Lines 1147-1155: the loop over map_entries from entry i on.
RECURSIVE MergeEntries(_, _, _, _)
MergeEntries(m, data_a, entries, i) ==
    IF i > Len(entries) \/ m.raised THEN m
    ELSE LET entry == entries[i] IN
         IF Mergeable(entry) /\ FitsLength(entry, Len(data_a), Len(m.data))
         THEN MergeEntries(CopyBytes(m, data_a, Val(entry.address_a), Val(entry.address_b),
                                     Val(entry.size_a), 0),
                           data_a, entries, i + 1)
         ELSE MergeEntries(m, data_a, entries, i + 1)

\* Lines 1144-1155.
Merged(data_a, data_b, entries) ==
    MergeEntries([data |-> data_b, raised |-> FALSE], data_a, entries, 1)

----------------------------------------------------------------------------
(* The byte window: the sliders and text boxes of lines 396-417 and their   *)
(* handlers, lines 1167-1274. A window is [start_slider, end_slider,        *)
(* start_box, end_box]. QSlider.setValue bounds the value to the range of   *)
(* the slider and emits valueChanged, synchronously, when the value         *)
(* changes; QLineEdit.setText emits textChanged when the text changes. The  *)
(* handlers block the signals of the widget they write to where the code    *)
(* does. A text is the number int(text, 16) reads it as, or None when int   *)
(* raises ValueError; f"{value:05X}" writes a number int reads back as      *)
(* itself, negative ones included.                                          *)

Max(a, b) == IF a >= b THEN a ELSE b

\* 524287 // 16, the maximum of both sliders (lines 397 and 402).
SliderMaximum == (ViewSize - 1) \div Granule

\* QAbstractSlider.setValue keeps the value inside [minimum, maximum].
SliderBound(v) == Max(0, Min(v, SliderMaximum))

RECURSIVE update_start_offset(_, _)
RECURSIVE update_end_offset(_, _)
RECURSIVE update_start_offset_from_box(_)
RECURSIVE update_end_offset_from_box(_)

\* start_offset_slider.setValue(v) with the signals of the slider open.
start_slider_setValue(w, v) ==
    IF SliderBound(v) = w.start_slider THEN w
    ELSE update_start_offset([w EXCEPT !.start_slider = SliderBound(v)], SliderBound(v))

\* end_offset_slider.setValue(v) with the signals of the slider open.
end_slider_setValue(w, v) ==
    IF SliderBound(v) = w.end_slider THEN w
    ELSE update_end_offset([w EXCEPT !.end_slider = SliderBound(v)], SliderBound(v))

\* Lines 1167-1183.
update_start_offset(w, value) ==
    LET actual_value == value * Granule
        w1 == [w EXCEPT !.start_box = Some(actual_value)]
        end_actual_value == w.end_slider * Granule
    IN IF actual_value >= end_actual_value
       THEN start_slider_setValue(w1, (end_actual_value - Granule) \div Granule)
       ELSE w1

\* Lines 1220-1236.
update_end_offset(w, value) ==
    LET actual_value == value * Granule
        w1 == [w EXCEPT !.end_box = Some(actual_value)]
        start_actual_value == w.start_slider * Granule
    IN IF actual_value <= start_actual_value
       THEN end_slider_setValue(w1, (start_actual_value + Granule) \div Granule)
       ELSE w1

\* update_start_offset_from_box without the test of lines 1200-1202.
update_start_offset_from_box_unclamped(w) ==
    IF w.start_box = None
    THEN [w EXCEPT !.start_box = Some(w.start_slider * Granule)]
    ELSE LET value == (Val(w.start_box) \div Granule) * Granule
         IN [w EXCEPT !.start_slider = SliderBound(value \div Granule),
                      !.start_box = Some(value)]

\* Lines 1185-1218. In the ValueError branch setText changes the text with
\* the signals of the box open, which runs the handler again.
update_start_offset_from_box(w) ==
    IF w.start_box = None
    THEN update_start_offset_from_box(
             [w EXCEPT !.start_box = Some(w.start_slider * Granule)])
    ELSE LET rounded == (Val(w.start_box) \div Granule) * Granule
             end_actual_value == w.end_slider * Granule
             slider_value == IF rounded >= end_actual_value
                             THEN (end_actual_value - Granule) \div Granule
                             ELSE rounded \div Granule
             value == IF rounded >= end_actual_value
                      THEN slider_value * Granule ELSE rounded
         IN [w EXCEPT !.start_slider = SliderBound(slider_value),
                      !.start_box = Some(value)]

\* Lines 1238-1274.
update_end_offset_from_box(w) ==
    IF w.end_box = None
    THEN update_end_offset_from_box(
             [w EXCEPT !.end_box = Some(w.end_slider * Granule)])
    ELSE LET rounded == (Val(w.end_box) \div Granule) * Granule
             start_actual_value == w.start_slider * Granule
             slider_value == IF rounded <= start_actual_value
                             THEN (start_actual_value + Granule) \div Granule
                             ELSE rounded \div Granule
             value == IF rounded <= start_actual_value
                      THEN slider_value * Granule ELSE rounded
         IN [w EXCEPT !.end_slider = SliderBound(Min(slider_value, (ViewSize - 1) \div Granule)),
                      !.end_box = Some(Min(value, ViewSize - 1))]

\* Lines 537-538 of parse_xdf: the start slider is set to the base offset
\* and update_start_offset is called with the same, unbounded, value.
parse_xdf_window(w, doc) ==
    IF doc.wellformed
    THEN update_start_offset(start_slider_setValue(w, base_offset(doc) \div Granule),
                             base_offset(doc) \div Granule)
    ELSE w

\* The window of the current state, and the assignment of a window.
Window ==
    [start_slider |-> start_offset_slider, end_slider |-> end_offset_slider,
     start_box |-> start_offset_box, end_box |-> end_offset_box]

SetWindow(w) ==
    /\ start_offset_slider' = w.start_slider
    /\ end_offset_slider' = w.end_slider
    /\ start_offset_box' = w.start_box
    /\ end_offset_box' = w.end_box

----------------------------------------------------------------------------
(* The picture: the layout update_visual_representation draws the bytes of  *)
(* the window in, and the hit test of get_map_at_position. A pixel is       *)
(* <<x, y>>, counted from 0.                                                *)

\* The largest n with n * n <= size / selected_range, from n up.
RECURSIVE FloorSqrtRatio(_, _, _)
FloorSqrtRatio(size, selected_range, n) ==
    IF (n + 1) * (n + 1) * selected_range <= size
    THEN FloorSqrtRatio(size, selected_range, n + 1)
    ELSE n

\* get_scaling, lines 1276-1284: max(1, round(sqrt(size / selected_range)
\* - 0.5)) for a window of selected_range > 0 bytes. round() of a number
\* between two integers and a half is the lower one, which is the floor of
\* the square root; when the square root is an integer n, n - 0.5 lies half
\* way and Python rounds it to the even one of n - 1 and n.
get_scaling(width, height, selected_range) ==
    LET size == width * height
        n == FloorSqrtRatio(size, selected_range, 0)
    IN Max(1, IF n * n * selected_range = size
              THEN (IF n % 2 = 0 THEN n ELSE n - 1)
              ELSE n)

\* Lines 836-849: scale, bytes_per_row, max_rows and total_bytes of the
\* picture.
Layout(width, height, start_offset, end_offset) ==
    LET scale == get_scaling(width, height, end_offset - start_offset)
        bytes_per_row == Max(1, width \div scale)
        max_rows == Max(1, height \div scale)
    IN [scale |-> scale, bytes_per_row |-> bytes_per_row,
        total_bytes |-> Min(end_offset - start_offset, bytes_per_row * max_rows)]

\* Lines 905-917: the pixels update_visual_representation colours for the
\* byte at `address` of a symbol.
DrawnBlock(width, height, start_offset, end_offset, address) ==
    LET l == Layout(width, height, start_offset, end_offset)
        relative_address == address - start_offset
        block_x == (relative_address % l.bytes_per_row) * l.scale
        block_y == (relative_address \div l.bytes_per_row) * l.scale
    IN IF /\ start_offset <= address /\ address < end_offset
          /\ relative_address < l.total_bytes
       THEN {<<block_x + dx, block_y + dy>> :
                dx \in {d \in 0..(l.scale - 1) : block_x + d < width},
                dy \in {d \in 0..(l.scale - 1) : block_y + d < height}}
       ELSE {}

\* Lines 1390-1419 of get_map_at_position: the address of the pixel, None
\* where the function returns None before it has one.
HitAddress(width, height, start_offset, end_offset, x, y) ==
    IF x >= width \/ y >= height THEN None
    ELSE LET scale == get_scaling(width, height, end_offset - start_offset)
             bytes_per_row == width \div scale
             relative_address == (y \div scale) * bytes_per_row + (x \div scale)
         IN IF relative_address >= end_offset - start_offset THEN None
            ELSE Some(start_offset + relative_address)

\* Lines 1401-1402 of get_map_at_position: its scale and bytes_per_row.
HitLayout(width, height, start_offset, end_offset) ==
    LET scale == get_scaling(width, height, end_offset - start_offset)
    IN [scale |-> scale, bytes_per_row |-> width \div scale]

\* Lines 1318-1319 of on_map_hovered and lines 1511-1512 of
\* highlight_map_from_table: their scale and bytes_per_row.
HighlightLayout(width, height, start_offset, end_offset) ==
    LET scale == get_scaling(width, height, end_offset - start_offset)
    IN [scale |-> scale, bytes_per_row |-> width \div scale]

\* Lines 1421-1427: the title of the first descriptor of `maps` that holds
\* the address, None when there is none.
TitleAt(maps, address) ==
    LET hits == {i \in 1..Len(maps) : maps[i].start <= address /\ address < maps[i].end}
    IN IF hits = {} THEN None
       ELSE Some(maps[CHOOSE i \in hits : \A j \in hits : i <= j].title)

\* get_map_at_position, lines 1387-1427, over list_A and then list_B.
get_map_at_position(width, height, start_offset, end_offset, listA, listB, x, y) ==
    LET address == HitAddress(width, height, start_offset, end_offset, x, y)
    IN IF address = None THEN None ELSE TitleAt(listA \o listB, Val(address))

----------------------------------------------------------------------------
(* The handlers *)

\* End of a handler other than export_merged_binary: merged_data is a local
\* of export_merged_binary and does not exist.
NoExport == export_status' = "none" /\ merged_data' = None

\* A handler that runs from its first line to its last in one step: no call
\* of on_item_check_changed is in progress before or after it.
NoCall == check_handler' = check_handler

\* End of a handler other than the key events of the table.
NoKey == ctrl_pressed' = ctrl_pressed

\* End of a handler that does not call parse_xdf, or whose call returned.
NoError == parse_error' = "none"

\* End of a handler other than on_map_hovered: its pixel, scale and
\* bytes_per_row are locals of on_map_hovered and highlight_map_from_table.
NoHover == map_hover' = None

\* End of a handler other than on_map_clicked and on_map_hovered: the pixel
\* and address are locals of on_map_clicked and get_map_at_position.
NoClick == map_click' = None /\ NoHover

\* update_map_entries_from_files followed by update_after_file_load, lines
\* 607-608 and 622-623, with the three category filters checked and an empty
\* search text (their state after construction, lines 360-363): the table,
\* the counts, the rows and the title -> row mapping they leave.
update_after_file_load(entries, green, yellow, red, rows, rowOf, listA, dictA, listB) ==
    /\ entries = SetRowIndex(update_map_entries_from_files(listA, dictA, listB),
                             1, 0, TRUE, TRUE, TRUE)
    /\ green = update_color_counts(entries, "green")
    /\ yellow = update_color_counts(entries, "yellow")
    /\ red = update_color_counts(entries, "red")
    /\ rows = SortRows(RowsBeforeSort(entries, 1), 1, <<>>)
    /\ rowOf = update_map_to_row_mapping(rows, 1, EmptyDict)

\* Reloaded restoring the checked flag of the titles the previous table
\* held (the preserved_states of the comments of lines 629-631 and 695-698).
ReloadedKeepingChecks(listA, dictA, listB) ==
    /\ map_entries' =
           [i \in 1..Len(update_map_entries_from_files(listA, dictA, listB)) |->
               LET e == SetRowIndex(update_map_entries_from_files(listA, dictA, listB),
                                    1, 0, TRUE, TRUE, TRUE)[i]
               IN IF e.title \in Keys(map_entries)
                  THEN [e EXCEPT !.checked =
                               map_entries[IndexOf(map_entries, e.title)].checked]
                  ELSE e]
    /\ green_count' = update_color_counts(map_entries', "green")
    /\ yellow_count' = update_color_counts(map_entries', "yellow")
    /\ red_count' = update_color_counts(map_entries', "red")
    /\ table_rows' = SortRows(RowsBeforeSort(map_entries', 1), 1, <<>>)
    /\ map_to_row_dict' = update_map_to_row_mapping(table_rows', 1, EmptyDict)

Reloaded(listA, dictA, listB) ==
    update_after_file_load(map_entries', green_count', yellow_count', red_count',
                           table_rows', map_to_row_dict', listA, dictA, listB)

\* Lines 597-610, for a file holding the document doc. An exception of
\* parse_xdf ends the handler at line 601, after parse_xdf has set the
\* window at lines 537-538.
load_file_a(doc) ==
    /\ parse_error' = parse_xdf_raises(doc)
    /\ SetWindow(parse_xdf_window(Window, doc))
    /\ IF parse_error' = "none"
       THEN /\ list_A' = parse_xdf(doc)
            /\ dict_A' = DictOf(list_A')
            /\ Reloaded(list_A', dict_A', list_B)
            /\ load_binary_a_button' = TRUE
       ELSE UNCHANGED <<list_A, dict_A, map_entries, green_count, yellow_count,
                        red_count, table_rows, map_to_row_dict,
                        load_binary_a_button>>
    /\ NoExport /\ NoClick /\ NoKey /\ NoCall
    /\ UNCHANGED <<list_B, dict_B, binary_data_a, binary_data_b,
                   load_binary_b_button, export_button, surface_vars>>

\* Lines 612-625.
load_file_b(doc) ==
    /\ parse_error' = parse_xdf_raises(doc)
    /\ SetWindow(parse_xdf_window(Window, doc))
    /\ IF parse_error' = "none"
       THEN /\ list_B' = parse_xdf(doc)
            /\ dict_B' = DictOf(list_B')
            /\ Reloaded(list_A, dict_A, list_B')
            /\ load_binary_b_button' = TRUE
       ELSE UNCHANGED <<list_B, dict_B, map_entries, green_count, yellow_count,
                        red_count, table_rows, map_to_row_dict,
                        load_binary_b_button>>
    /\ NoExport /\ NoClick /\ NoKey /\ NoCall
    /\ UNCHANGED <<list_A, dict_A, binary_data_a, binary_data_b,
                   load_binary_a_button, export_button, surface_vars>>

\* Lines 1429-1454 with the export button enabled whatever the other side holds.
load_binary_a_enabling_export(f) ==
    /\ load_binary_a_button
    /\ IF f.error = "none"
       THEN /\ binary_data_a' = Some(NormalizeBinary(f.content))
            /\ export_button' = TRUE
       ELSE UNCHANGED <<binary_data_a, export_button>>
    /\ NoExport /\ NoClick /\ NoError /\ NoKey /\ NoCall
    /\ UNCHANGED <<list_A, list_B, dict_A, dict_B, map_entries, green_count,
                   yellow_count, red_count, binary_data_b, table_rows,
                   map_to_row_dict, load_binary_a_button, load_binary_b_button,
                   window_vars, surface_vars>>

\* Lines 1429-1454, run by the click of load_binary_a_button (line 348), which
\* Qt delivers only while the button is enabled, for the file f the dialog
\* returned. open() or read() raising leaves the handler at line 1434-1435
\* before binary_data_a is assigned; the except clause prints and returns.
load_binary_a(f) ==
    /\ load_binary_a_button
    /\ IF f.error = "none"
       THEN /\ binary_data_a' = Some(NormalizeBinary(f.content))
            /\ export_button' = (export_button \/ binary_data_b # None)
       ELSE UNCHANGED <<binary_data_a, export_button>>
    /\ NoExport /\ NoClick /\ NoError /\ NoKey /\ NoCall
    /\ UNCHANGED <<list_A, list_B, dict_A, dict_B, map_entries, green_count,
                   yellow_count, red_count, binary_data_b, table_rows,
                   map_to_row_dict, load_binary_a_button, load_binary_b_button,
                   window_vars, surface_vars>>

\* Lines 1456-1481, run by the click of load_binary_b_button (line 349), which
\* Qt delivers only while the button is enabled, for the file f the dialog
\* returned. open() or read() raising leaves the handler at line 1461-1462
\* before binary_data_b is assigned; the except clause prints and returns.
load_binary_b(f) ==
    /\ load_binary_b_button
    /\ IF f.error = "none"
       THEN /\ binary_data_b' = Some(NormalizeBinary(f.content))
            /\ export_button' = (export_button \/ binary_data_a # None)
       ELSE UNCHANGED <<binary_data_b, export_button>>
    /\ NoExport /\ NoClick /\ NoError /\ NoKey /\ NoCall
    /\ UNCHANGED <<list_A, list_B, dict_A, dict_B, map_entries, green_count,
                   yellow_count, red_count, binary_data_a, table_rows,
                   map_to_row_dict, load_binary_a_button, load_binary_b_button,
                   window_vars, surface_vars>>

\* The user clicks the check box of a displayed row while the table does
\* not believe the Ctrl key held: Qt flips the box and emits itemChanged,
\* lines 1042-1076; mouseReleaseEvent does nothing more (line 161).
check_box_clicked(row) ==
    /\ row \in 0..(Len(table_rows) - 1)
    /\ ~ctrl_pressed
    /\ LET st == on_item_check_changed(
                     HandlerState(map_entries,
                                  [table_rows EXCEPT ![row + 1].check = ~@],
                                  TRUE, ctrl_pressed),
                     map_to_row_dict, row)
       IN /\ map_entries' = st.entries
          /\ table_rows' = st.rows
    /\ NoExport /\ NoClick /\ NoError /\ NoKey /\ NoCall
    /\ UNCHANGED <<list_A, list_B, dict_A, dict_B, green_count, yellow_count,
                   red_count, binary_data_a, binary_data_b, map_to_row_dict,
                   load_binary_a_button, load_binary_b_button, export_button,
                   window_vars, surface_vars>>

\* The click of check_box_clicked as the first of the steps of its handler:
\* Qt flips the box and on_item_check_changed runs up to the loop of
\* update_linked_map_checks.
item_changed(row) ==
    /\ row \in 0..(Len(table_rows) - 1)
    /\ ~ctrl_pressed
    /\ check_handler.stack = <<>>
    /\ table_rows' = [table_rows EXCEPT ![row + 1].check = ~@]
    /\ LET entered == EnterHandler(IdleHandler, map_entries, table_rows', row)
       IN /\ map_entries' = entered.entries
          /\ check_handler' = entered.handler
    /\ NoExport /\ NoClick /\ NoError /\ NoKey
    /\ UNCHANGED <<list_A, list_B, dict_A, dict_B, green_count, yellow_count,
                   red_count, binary_data_a, binary_data_b, map_to_row_dict,
                   load_binary_a_button, load_binary_b_button, export_button,
                   window_vars, surface_vars>>

\* One iteration of the loop of the innermost update_linked_map_checks,
\* lines 1098-1112, or its return when the loop is over. setCheckState at
\* line 1112 notifies on_item_check_changed when it changes the box.
linked_loop_step ==
    /\ check_handler.stack # <<>>
    /\ LET depth == Len(check_handler.stack)
           frame == check_handler.stack[depth]
       IN IF frame.i > Len(map_entries)
          THEN /\ check_handler' = [check_handler EXCEPT
                                       !.stack = SubSeq(@, 1, depth - 1)]
               /\ UNCHANGED <<map_entries, table_rows>>
          ELSE LET e == map_entries[frame.i]
                   advanced == [check_handler EXCEPT !.stack[depth].i = @ + 1]
               IN IF e.title # frame.map_title
                     /\ Linked(e, frame.start_address_a, frame.start_address_b)
                  THEN LET written == LinkedWrite(map_entries, frame.i, frame.checked)
                           noted == [advanced EXCEPT
                                        !.written = @ \cup {written[frame.i].checked}]
                           row == map_to_row_dict[e.title]
                       IN IF e.row_index >= 0 /\ table_rows[row + 1].check # frame.checked
                          THEN /\ table_rows' = [table_rows EXCEPT
                                                    ![row + 1].check = frame.checked]
                               /\ LET entered == EnterHandler(noted, written,
                                                              table_rows', row)
                                  IN /\ map_entries' = entered.entries
                                     /\ check_handler' = entered.handler
                          ELSE /\ map_entries' = written
                               /\ check_handler' = noted
                               /\ UNCHANGED table_rows
                  ELSE /\ check_handler' = advanced
                       /\ UNCHANGED <<map_entries, table_rows>>
    /\ NoExport /\ NoClick /\ NoError /\ NoKey
    /\ UNCHANGED <<list_A, list_B, dict_A, dict_B, green_count, yellow_count,
                   red_count, binary_data_a, binary_data_b, map_to_row_dict,
                   load_binary_a_button, load_binary_b_button, export_button,
                   window_vars, surface_vars>>

\* The user clicks the check box of a displayed row while the table
\* believes the Ctrl key held, lines 146-166: Qt flips the box and emits
\* itemChanged, on_item_check_changed returns at line 1045, and
\* mouseReleaseEvent calls toggle_checkboxes_in_selected_rows. The rows
\* selected at that moment are Qt's, which the same click may have changed:
\* any set of rows.
ctrl_box_clicked(row, selected_rows) ==
    /\ row \in 0..(Len(table_rows) - 1)
    /\ ctrl_pressed
    /\ LET flipped == on_item_check_changed(
                          HandlerState(map_entries,
                                       [table_rows EXCEPT ![row + 1].check = ~@],
                                       TRUE, ctrl_pressed),
                          map_to_row_dict, row)
           st == toggle_checkboxes_in_selected_rows(flipped, map_to_row_dict,
                                                    selected_rows, row)
       IN /\ map_entries' = st.entries
          /\ table_rows' = st.rows
    /\ NoExport /\ NoClick /\ NoError /\ NoKey /\ NoCall
    /\ UNCHANGED <<list_A, list_B, dict_A, dict_B, green_count, yellow_count,
                   red_count, binary_data_a, binary_data_b, map_to_row_dict,
                   load_binary_a_button, load_binary_b_button, export_button,
                   window_vars, surface_vars>>

\* keyPressEvent and keyReleaseEvent of the table for the Ctrl key, lines
\* 136-144.
keyPressEvent ==
    /\ ctrl_pressed' = TRUE
    /\ NoExport /\ NoClick /\ NoError /\ NoCall
    /\ UNCHANGED <<table_vars, image_vars, window_vars, surface_vars>>

keyReleaseEvent ==
    /\ ctrl_pressed' = FALSE
    /\ NoExport /\ NoClick /\ NoError /\ NoCall
    /\ UNCHANGED <<table_vars, image_vars, window_vars, surface_vars>>

\* `not self.binary_data_a`, line 1139: None or an empty bytearray.
Absent(binary_data) == binary_data = None \/ Val(binary_data) = <<>>

\* Lines 1137-1155. The handler is taken as the export operation itself: it
\* runs whether or not export_button is enabled.
export_merged_binary ==
    /\ IF Absent(binary_data_a) \/ Absent(binary_data_b)
       THEN export_status' = "refused" /\ merged_data' = None
       ELSE LET m == Merged(Val(binary_data_a), Val(binary_data_b), map_entries)
            IN IF m.raised
               THEN export_status' = "IndexError" /\ merged_data' = None
               ELSE export_status' = "merged" /\ merged_data' = Some(m.data)
    /\ NoClick /\ NoError /\ NoKey /\ NoCall
    /\ UNCHANGED <<list_A, list_B, dict_A, dict_B, map_entries, green_count,
                   yellow_count, red_count, binary_data_a, binary_data_b,
                   table_rows, map_to_row_dict, load_binary_a_button,
                   load_binary_b_button, export_button, window_vars, surface_vars>>

\* The user moves the start slider to v: Qt stores the value and emits
\* valueChanged, connected to update_start_offset (line 414).
start_slider_moved(v) ==
    /\ v \in 0..SliderMaximum /\ v # start_offset_slider
    /\ SetWindow(start_slider_setValue(Window, v))
    /\ NoExport /\ NoClick /\ NoError /\ NoKey /\ NoCall
    /\ UNCHANGED <<table_vars, image_vars, surface_vars>>

\* The user moves the end slider to v (line 416).
end_slider_moved(v) ==
    /\ v \in 0..SliderMaximum /\ v # end_offset_slider
    /\ SetWindow(end_slider_setValue(Window, v))
    /\ NoExport /\ NoClick /\ NoError /\ NoKey /\ NoCall
    /\ UNCHANGED <<table_vars, image_vars, surface_vars>>

\* The user changes the text of the start box to `text`: textChanged is
\* connected to update_start_offset_from_box (line 415).
start_box_edited(text) ==
    /\ text # start_offset_box
    /\ SetWindow(update_start_offset_from_box([Window EXCEPT !.start_box = text]))
    /\ NoExport /\ NoClick /\ NoError /\ NoKey /\ NoCall
    /\ UNCHANGED <<table_vars, image_vars, surface_vars>>

\* The user changes the text of the end box (line 417).
end_box_edited(text) ==
    /\ text # end_offset_box
    /\ SetWindow(update_end_offset_from_box([Window EXCEPT !.end_box = text]))
    /\ NoExport /\ NoClick /\ NoError /\ NoKey /\ NoCall
    /\ UNCHANGED <<table_vars, image_vars, surface_vars>>

\* update_after_resize, lines 730-734, when the window leaves the picture
\* width by height pixels (update_visualization_dimensions, lines 741-807).
update_after_resize(width, height) ==
    /\ visualization_width' = width
    /\ visualization_height' = height
    /\ NoExport /\ NoClick /\ NoError /\ NoKey /\ NoCall
    /\ UNCHANGED <<table_vars, image_vars, window_vars>>

\* on_map_clicked, lines 1358-1382, for a click on the pixel <<x, y>> of the
\* picture: the box of the row of the symbol under it is flipped with
\* setCheckState, which runs on_item_check_changed.
on_map_clicked(x, y) ==
    /\ map_click' = Some([x |-> x, y |-> y,
                          layout |-> IF x >= visualization_width \/ y >= visualization_height
                                     THEN None
                                     ELSE Some(HitLayout(visualization_width,
                                                         visualization_height,
                                                         start_offset_slider * Granule,
                                                         end_offset_slider * Granule)),
                          address |-> HitAddress(visualization_width, visualization_height,
                                                 start_offset_slider * Granule,
                                                 end_offset_slider * Granule, x, y)])
    /\ NoHover /\ NoError /\ NoKey /\ NoCall
    /\ LET map_title == get_map_at_position(visualization_width, visualization_height,
                                            start_offset_slider * Granule,
                                            end_offset_slider * Granule,
                                            list_A, list_B, x, y)
       IN IF map_title = None \/ Val(map_title) \notin DOMAIN map_to_row_dict
          THEN UNCHANGED <<map_entries, table_rows>>
          ELSE LET row == map_to_row_dict[Val(map_title)]
                   st == on_item_check_changed(
                             HandlerState(map_entries,
                                          [table_rows EXCEPT ![row + 1].check = ~@],
                                          TRUE, ctrl_pressed),
                             map_to_row_dict, row)
               IN /\ map_entries' = st.entries
                  /\ table_rows' = st.rows
    /\ NoExport
    /\ UNCHANGED <<list_A, list_B, dict_A, dict_B, green_count, yellow_count,
                   red_count, map_to_row_dict, image_vars, window_vars, surface_vars>>

\* on_map_hovered, lines 1306-1356, for the pointer over the pixel <<x, y>>
\* of the picture, x >= 0 and y >= 0: the address label is computed with the
\* scale and bytes_per_row of lines 1318-1319, and the row of the symbol under
\* the pixel is highlighted by highlight_map_from_table (lines 1500-1557),
\* whose loops divide by its bytes_per_row (lines 1525, 1547) for every byte
\* of the symbol inside the window.
on_map_hovered(x, y) ==
    /\ LET layout == HighlightLayout(visualization_width, visualization_height,
                                     start_offset_slider * Granule,
                                     end_offset_slider * Granule)
           map_title == get_map_at_position(visualization_width, visualization_height,
                                            start_offset_slider * Granule,
                                            end_offset_slider * Granule,
                                            list_A, list_B, x, y)
       IN map_hover' = Some([x |-> x, y |-> y, layout |-> layout,
                             highlight |->
                                 IF map_title = None \/ Val(map_title) \notin DOMAIN map_to_row_dict
                                 THEN "base_image"
                                 ELSE IF layout.bytes_per_row = 0
                                 THEN "ZeroDivisionError"
                                 ELSE "highlighted_image"])
    /\ map_click' = None
    /\ NoExport /\ NoError /\ NoKey /\ NoCall
    /\ UNCHANGED <<table_vars, image_vars, window_vars, surface_vars>>

----------------------------------------------------------------------------
(* The application *)

\* The picture after construction: VISUALIZATION_WIDTH by
\* VISUALIZATION_HEIGHT (lines 110-111, 311-312), twice as wide as high.
VISUALIZATION_WIDTH == MaxSide

VISUALIZATION_HEIGHT == MaxSide \div 2

\* Lines 396-404 and 311-312: the window shows everything, "00000" to
\* "7FFFF".
InitView ==
    /\ start_offset_slider = 0
    /\ end_offset_slider = SliderMaximum
    /\ start_offset_box = Some(0)
    /\ end_offset_box = Some(ViewSize - 1)
    /\ visualization_width = VISUALIZATION_WIDTH
    /\ visualization_height = VISUALIZATION_HEIGHT
    /\ map_click = None
    /\ map_hover = None
    /\ parse_error = "none"
    /\ ctrl_pressed = FALSE
    /\ check_handler = IdleHandler

\* MainWindow.__init__, lines 288-305, 345-347 and 422.
Init ==
    /\ list_A = <<>> /\ list_B = <<>>
    /\ dict_A = EmptyDict /\ dict_B = EmptyDict
    /\ map_entries = <<>>
    /\ green_count = 0 /\ yellow_count = 0 /\ red_count = 0
    /\ binary_data_a = None /\ binary_data_b = None
    /\ table_rows = <<>>
    /\ map_to_row_dict = EmptyDict
    /\ load_binary_a_button = FALSE
    /\ load_binary_b_button = FALSE
    /\ export_button = FALSE
    /\ export_status = "none"
    /\ merged_data = None
    /\ InitView

\* The image file of a side with n bytes: odd values for A, even ones for B,
\* a different value at every offset.
ImageBytes(side, n) == [i \in 1..n |-> IF side = "a" THEN 2 * i - 1 ELSE 2 * i]

\* A file that open() and read() deliver with the given content.
Readable(content) == [error |-> "none", content |-> content]

\* A file that open() or read() fails on.
Unreadable == [error |-> "OSError", content |-> <<>>]

ImageFile(side, n) == Readable(ImageBytes(side, n))

\* The application with every handler: definition files declaring one title,
\* image files of every length up to one byte more than an image.
Lists == ParsedLists(DescriptorsOf({"X"}, {0, BinSize - 1}, {1, 2}))

FileLengths == 0..(BinSize + 1)

\* The files the binary dialog of a side can return.
ImageFiles(side) == {ImageFile(side, n) : n \in FileLengths} \cup {Unreadable}

Next ==
    \/ \E doc \in Documents({0}, Lists) : load_file_a(doc)
    \/ \E doc \in Documents({0}, Lists) : load_file_b(doc)
    \/ \E f \in ImageFiles("a") : load_binary_a(f)
    \/ \E f \in ImageFiles("b") : load_binary_b(f)
    \/ \E row \in 0..(Len(table_rows) - 1) : check_box_clicked(row)
    \/ export_merged_binary

Spec == Init /\ [][Next]_vars

\* The state after load_file_a and load_file_b of documents with base offset
\* 0 and the lists la and lb, before any image is loaded.
DefinitionsLoaded(la, lb) ==
    /\ list_A = la /\ list_B = lb
    /\ dict_A = DictOf(la) /\ dict_B = DictOf(lb)
    /\ update_after_file_load(map_entries, green_count, yellow_count, red_count,
                              table_rows, map_to_row_dict, la, dict_A, lb)
    /\ binary_data_a = None /\ binary_data_b = None
    /\ load_binary_a_button = TRUE
    /\ load_binary_b_button = TRUE
    /\ export_button = FALSE
    /\ export_status = "none"
    /\ merged_data = None
    /\ InitView

\* The reconciliation alone: definition files declaring three titles, loaded
\* in any order and any number of times.
ListsReconcile == ParsedLists(DescriptorsOf({"X", "Y", "Z"}, {0, 1}, {1, 2}))

NextReconcile ==
    \/ \E doc \in Documents({0}, ListsReconcile) : load_file_a(doc)
    \/ \E doc \in Documents({0}, ListsReconcile) : load_file_b(doc)

SpecReconcile == Init /\ [][NextReconcile]_vars

\* The export over the tables of two titles, with addresses inside the
\* image, at its last byte and before its first byte: both definition files
\* are loaded, then images are loaded, boxes clicked and the merge exported.
ListsExport == ParsedLists(DescriptorsOf({"X", "Y"}, {-1, 0, BinSize - 1}, {1, 2}))

InitExport == \E la \in ListsExport : \E lb \in ListsExport : DefinitionsLoaded(la, lb)

NextExport ==
    \/ load_binary_a(ImageFile("a", BinSize + 1))
    \/ load_binary_b(ImageFile("b", BinSize + 1))
    \/ \E row \in 0..(Len(table_rows) - 1) : check_box_clicked(row)
    \/ export_merged_binary

SpecExport == InitExport /\ [][NextExport]_vars

\* The export over the tables of one title whose addresses also lie before
\* the first byte of the image by up to one image length and one byte more.
ListsBounds ==
    ParsedLists(DescriptorsOf({"X"}, {-(BinSize + 1), -1, 0, BinSize - 1}, {1, 2}))

InitBounds == \E la \in ListsBounds : \E lb \in ListsBounds : DefinitionsLoaded(la, lb)

SpecBounds == InitBounds /\ [][NextExport]_vars

\* The table and its check boxes: definition documents declaring three
\* titles at two addresses, the malformed document, and clicks on the boxes
\* of the displayed rows, in any order.
ListsToggle == ParsedLists(DescriptorsOf({"C", "D", "E"}, {0, 1}, {1}))

NextToggle ==
    \/ \E doc \in Documents({0}, ListsToggle) : load_file_a(doc)
    \/ \E doc \in Documents({0}, ListsToggle) : load_file_b(doc)
    \/ \E row \in 0..(Len(table_rows) - 1) : check_box_clicked(row)

SpecToggle == Init /\ [][NextToggle]_vars

\* The byte window: slider moves, text edits and loads of definition
\* documents. The texts read as numbers below 0, inside the window range and
\* beyond it, at and off the 16-byte steps, or do not read as a number; the
\* base offsets are negative, inside the range and beyond it.
BoxValues ==
    {-(Granule + 1), -1}
        \cup {k * Granule + r : k \in 0..(SliderMaximum + 1), r \in {0, Granule - 1}}

BoxTexts == {None} \cup {Some(v) : v \in BoxValues}

ViewOffsets == {-(Granule + 1), 0, Granule + 1, ViewSize - Granule, ViewSize + Granule}

ListsView == ParsedLists(DescriptorsOf({"X"}, {0}, {1}))

NextView ==
    \/ \E v \in 0..SliderMaximum : start_slider_moved(v)
    \/ \E v \in 0..SliderMaximum : end_slider_moved(v)
    \/ \E text \in BoxTexts : start_box_edited(text)
    \/ \E text \in BoxTexts : end_box_edited(text)
    \/ \E doc \in Documents(ViewOffsets, ListsView) : load_file_a(doc)
    \/ \E doc \in Documents(ViewOffsets, ListsView) : load_file_b(doc)

SpecView == Init /\ [][NextView]_vars

\* The picture: file A declares one symbol over the first bytes of the
\* window; the window is resized, the sliders are moved and the picture is
\* clicked at every pixel up to one beyond the largest picture.
SidesLayout == {1, MaxSide - 1, MaxSide}

InitLayout == DefinitionsLoaded(<<Descriptor("X", 0, Granule + 1, "d")>>, <<>>)

NextLayout ==
    \/ \E width \in SidesLayout : \E height \in SidesLayout :
           update_after_resize(width, height)
    \/ \E v \in 0..SliderMaximum : start_slider_moved(v)
    \/ \E v \in 0..SliderMaximum : end_slider_moved(v)
    \/ \E x \in 0..MaxSide : \E y \in 0..MaxSide : on_map_clicked(x, y)

SpecLayout == InitLayout /\ [][NextLayout]_vars

\* The picture in a narrow and tall window, in pixels as
\* update_visualization_dimensions leaves them: the width is at least
\* MinWidth (line 746) and nothing bounds the height from above. The pointer
\* is moved to and clicked at its corners, and one pixel beyond them.
SurfaceWidths == {MinWidth, MinWidth + 1}

SurfaceHeights == {MinWidth, TallHeight}

PointerXs == {0, MinWidth - 1, MinWidth + 1}

PointerYs == {0, TallHeight - 1, TallHeight}

NextSurface ==
    \/ \E width \in SurfaceWidths : \E height \in SurfaceHeights :
           update_after_resize(width, height)
    \/ \E v \in 0..SliderMaximum : start_slider_moved(v)
    \/ \E v \in 0..SliderMaximum : end_slider_moved(v)
    \/ \E x \in PointerXs : \E y \in PointerYs : on_map_clicked(x, y)
    \/ \E x \in PointerXs : \E y \in PointerYs : on_map_hovered(x, y)

SpecSurface == InitLayout /\ [][NextSurface]_vars

\* The parse: documents with no BASEOFFSET, with one whose subtract is no
\* number and with one whose offset is no number; with no table, a table of
\* two columns, a table whose row count is no number and a table without
\* element size; with up to two constants, each at one of two addresses,
\* without address or without EMBEDDEDDATA; with no patch entry, a patch
\* entry and a patch entry whose data size is no number. Every element has
\* the title of its place in the document.
BaseOffsetsParse ==
    {None, Some(BaseOffset(Num(Granule), Garbled)), Some(BaseOffset(Garbled, Num(Granule)))}

TablesParse ==
    {<<>>} \cup
    {<<Symbol("T", "d", Some(EmbeddedData(Num(1), bits, rows, Num(2))))>> :
        bits \in {Num(8)}, rows \in {Missing, Garbled}} \cup
    {<<Symbol("T", "d", Some(EmbeddedData(Num(1), Missing, Missing, Num(2))))>>}

ConstantsOf(t) ==
    {Symbol(t, "d", Some(EmbeddedData(Num(0), Num(8), Missing, Missing))),
     Symbol(t, "d", Some(EmbeddedData(Num(1), Num(20), Missing, Missing))),
     Symbol(t, "d", Some(EmbeddedData(Missing, Num(8), Missing, Missing))),
     Symbol(t, "d", None)}

ConstantsParse ==
    {<<>>} \cup {<<c>> : c \in ConstantsOf("C")}
           \cup {<<c, d>> : c \in ConstantsOf("C"), d \in ConstantsOf("D")}

PatchesParse ==
    {<<>>, <<PatchEntry("P", "d", Num(0), Num(1))>>,
           <<PatchEntry("P", "d", Num(0), Garbled)>>}

DocumentsParse ==
    {XdfDocument(b, t, c, p) : b \in BaseOffsetsParse, t \in TablesParse,
                               c \in ConstantsParse, p \in PatchesParse}
        \cup {Malformed}

NextParse == \E doc \in DocumentsParse : load_file_a(doc)

SpecParse == Init /\ [][NextParse]_vars

\* The check boxes with the Ctrl key: two definition files as in SpecToggle
\* are loaded; then clicks on the boxes with and without the key, with any
\* rows selected, and clicks on the first two bytes of the picture.
InitCoherence == \E la \in ListsToggle : \E lb \in ListsToggle : DefinitionsLoaded(la, lb)

NextCoherence ==
    \/ \E row \in 0..(Len(table_rows) - 1) : check_box_clicked(row)
    \/ \E row \in 0..(Len(table_rows) - 1) :
           \E selected_rows \in SUBSET (0..(Len(table_rows) - 1)) :
               ctrl_box_clicked(row, selected_rows)
    \/ keyPressEvent
    \/ keyReleaseEvent
    \/ \E x \in {0, 1} : on_map_clicked(x, 0)

SpecCoherence == InitCoherence /\ [][NextCoherence]_vars

\* The handler of a check box step by step: two definition files as in
\* SpecToggle are loaded, boxes are clicked, and the handler of a click runs
\* to its end before the next event is delivered (Qt calls the slot from the
\* event loop and the slot returns to it).
NextHandler ==
    \/ \E row \in 0..(Len(table_rows) - 1) : item_changed(row)
    \/ linked_loop_step

SpecHandler == InitCoherence /\ [][NextHandler]_vars /\ WF_vars(linked_loop_step)

----------------------------------------------------------------------------
(* Properties of the reconciliation, checked under SpecReconcile *)

HasA(e) == e.address_a # None /\ e.size_a # None

HasB(e) == e.address_b # None /\ e.size_b # None

SameRegion(e) == e.address_a = e.address_b /\ e.size_a = e.size_b

Entries == {map_entries[i] : i \in 1..Len(map_entries)}

\* C8 as stated: an entry with both sides and the same address and size on
\* both is green, an entry with exactly one side is red, every other entry
\* is yellow.
C8_CategoryByRegionOnly ==
    \A e \in Entries :
        /\ (HasA(e) /\ HasB(e) /\ SameRegion(e)) => e.category = "green"
        /\ (HasA(e) # HasB(e)) => e.category = "red"
        /\ ~(HasA(e) /\ HasB(e) /\ SameRegion(e)) /\ ~(HasA(e) # HasB(e))
               => e.category = "yellow"

\* C8 amended: an entry with exactly one side is red; an entry with both
\* sides and different address or size is yellow; an entry with both sides
\* and the same address and size is green when no alias match gave it a
\* second_name, and green or yellow when one did (yellow only then).
C8_CategoryDerived ==
    \A e \in Entries :
        /\ (HasA(e) # HasB(e)) => e.category = "red"
        /\ (HasA(e) /\ HasB(e) /\ ~SameRegion(e)) => e.category = "yellow"
        /\ (HasA(e) /\ HasB(e) /\ SameRegion(e)) =>
               /\ e.category \in {"green", "yellow"}
               /\ e.second_name = None => e.category = "green"
        /\ HasA(e) \/ HasB(e)

\* C8 witness: an alias-matched entry, yellow with the same region on both
\* sides, next to a one-sided entry.
C8_Witness ==
    /\ \E e \in Entries : /\ HasA(e) /\ HasB(e) /\ SameRegion(e)
                          /\ e.category = "yellow" /\ e.second_name # None
    /\ \E e \in Entries : HasA(e) # HasB(e)

\* C9: the three counts add up to the number of entries of the table.
C9_CategoryTotals ==
    green_count + yellow_count + red_count = Len(map_entries)

\* C9 witness: a table of three entries, one yellow and two red (one of them
\* B-only).
C9_Witness ==
    /\ Len(map_entries) = 3 /\ yellow_count = 1 /\ red_count = 2
    /\ \E e \in Entries : ~HasA(e)

----------------------------------------------------------------------------
(* Properties of the export and of the images. Offsets count from 0, as in  *)
(* the program; byte i of a buffer is its element i + 1.                    *)

ByteAt(buffer, i) == buffer[i + 1]

Offsets == 0..(BinSize - 1)

Exported == export_status = "merged" /\ merged_data # None

\* export_merged_binary ran with both images loaded.
ExportRan == export_status \in {"merged", "IndexError"}

EqualSizes(e) == HasA(e) /\ HasB(e) /\ e.size_a = e.size_b

\* Both ranges of e lie inside the image.
InBounds(e) ==
    /\ 0 <= Val(e.address_a) /\ Val(e.address_a) + Val(e.size_a) <= BinSize
    /\ 0 <= Val(e.address_b) /\ Val(e.address_b) + Val(e.size_a) <= BinSize

\* The range [address_b, address_b + n) of e.
RangeB(e, n) == Val(e.address_b)..(Val(e.address_b) + n - 1)

\* The offsets the copy loop stores to for an entry that passes the tests of
\* lines 1148 and 1152: those of its B range, one before the first byte
\* of the image being the last byte of the image.
Stored(e) ==
    IF e.checked /\ EqualSizes(e)
       /\ Val(e.address_a) + Val(e.size_a) <= BinSize
       /\ Val(e.address_b) + Val(e.size_a) <= BinSize
    THEN {IF i < 0 THEN i + BinSize ELSE i : i \in RangeB(e, Val(e.size_a))}
    ELSE {}

\* Every range of every entry lies inside the image: the tables for which
\* the test of line 1152 admits no range outside it.
AllInsideImage ==
    \A e \in Entries :
        /\ HasA(e) => (0 <= Val(e.address_a) /\ Val(e.address_a) + Val(e.size_a) <= BinSize)
        /\ HasB(e) => (0 <= Val(e.address_b) /\ Val(e.address_b) + Val(e.size_b) <= BinSize)

\* C1 as stated, for the tables whose ranges all lie inside the image: after
\* an export the B range of every entry with both sides and different
\* sizes holds the bytes of binary B, whatever the other entries are.
C1_MismatchRegionUntouched ==
    (Exported /\ AllInsideImage) =>
        \A e \in Entries :
            (HasA(e) /\ HasB(e) /\ e.size_a # e.size_b) =>
                \A i \in RangeB(e, Val(e.size_b)) \cap Offsets :
                    ByteAt(Val(merged_data), i) = ByteAt(Val(binary_data_b), i)

\* C1 amended: after an export, every byte of the B range of an entry with
\* both sides and different sizes holds the byte of binary B, except where
\* the copy of another entry stored to it.
C1_MergeSafety ==
    Exported =>
        \A e \in Entries :
            (HasA(e) /\ HasB(e) /\ e.size_a # e.size_b) =>
                \A i \in RangeB(e, Val(e.size_b)) \cap Offsets :
                    \/ ByteAt(Val(merged_data), i) = ByteAt(Val(binary_data_b), i)
                    \/ \E o \in Entries : o # e /\ i \in Stored(o)

\* C1 witness: an export with a checked entry of different sizes whose B
\* range lies in the image, while another entry was copied elsewhere.
C1_Witness ==
    /\ Exported
    /\ \E e \in Entries :
           /\ HasA(e) /\ HasB(e) /\ e.size_a # e.size_b /\ e.checked
           /\ RangeB(e, Val(e.size_b)) \subseteq Offsets
           /\ \E o \in Entries :
                  /\ Stored(o) # {}
                  /\ Stored(o) \cap RangeB(e, Val(e.size_b)) = {}
                  /\ \E i \in Stored(o) :
                         ByteAt(Val(merged_data), i) # ByteAt(Val(binary_data_b), i)

\* C2 as stated, for the tables whose ranges all lie inside the image: after
\* an export the B range of every checked entry with both sides, equal
\* sizes and both ranges inside the image holds the bytes of binary A at
\* its A range.
C2_CopiedFromA ==
    (Exported /\ AllInsideImage) =>
        \A e \in Entries :
            (e.checked /\ EqualSizes(e) /\ InBounds(e)) =>
                \A k \in 0..(Val(e.size_a) - 1) :
                    ByteAt(Val(merged_data), Val(e.address_b) + k)
                        = ByteAt(Val(binary_data_a), Val(e.address_a) + k)

\* C2 amended: the same, except at the offsets an entry later in the order
\* of the table stored to (of the entries copied to one offset the last
\* one wins).
C2_ExportCopy ==
    Exported =>
        \A n \in 1..Len(map_entries) :
            LET e == map_entries[n] IN
            (e.checked /\ EqualSizes(e) /\ InBounds(e)) =>
                \A k \in 0..(Val(e.size_a) - 1) :
                    \/ ByteAt(Val(merged_data), Val(e.address_b) + k)
                           = ByteAt(Val(binary_data_a), Val(e.address_a) + k)
                    \/ \E later \in (n + 1)..Len(map_entries) :
                           Val(e.address_b) + k \in Stored(map_entries[later])

\* C2 witness: an export that copied a checked yellow entry from its address
\* in A to another address in B.
C2_Witness ==
    /\ Exported
    /\ \E e \in Entries :
           /\ e.checked /\ EqualSizes(e) /\ InBounds(e) /\ e.category = "yellow"
           /\ e.address_a # e.address_b
           /\ ByteAt(Val(merged_data), Val(e.address_b))
                  = ByteAt(Val(binary_data_a), Val(e.address_a))
           /\ ByteAt(Val(merged_data), Val(e.address_b))
                  # ByteAt(Val(binary_data_b), Val(e.address_b))

\* C3 as stated: after an export every byte outside the B ranges of the
\* checked entries with both sides, equal sizes and both ranges inside the
\* image is the byte of binary B.
C3_ExportFrame ==
    Exported =>
        \A i \in Offsets :
            (~ \E e \in Entries : /\ e.checked /\ EqualSizes(e) /\ InBounds(e)
                                  /\ i \in RangeB(e, Val(e.size_a)))
                => ByteAt(Val(merged_data), i) = ByteAt(Val(binary_data_b), i)

\* C4 as stated: when every checked entry with both sides and equal sizes
\* has a range that is not inside the image, export_merged_binary completes
\* and its buffer is binary B.
C4_OutOfBoundsSkipped ==
    (ExportRan /\ \A e \in Entries : (e.checked /\ EqualSizes(e)) => ~InBounds(e))
        => (Exported /\ Val(merged_data) = Val(binary_data_b))

\* C5: the exported buffer is as long as an image, whatever the lengths of
\* the loaded files.
C5_BoundsPreservation ==
    merged_data # None => Len(Val(merged_data)) = BinSize

\* C5 witness: an export after binary B came from a shorter file (its last
\* byte is padding) and binary A from a file at least as long as an image.
C5_Witness ==
    /\ Exported
    /\ ByteAt(Val(binary_data_b), BinSize - 1) = 0
    /\ ByteAt(Val(binary_data_a), BinSize - 1) # 0
    /\ map_entries # <<>>

\* The buffer stored for a file: as long as an image, the bytes of the file
\* first, zeros after them.
NormalizedFrom(buffer, file) ==
    /\ buffer # None
    /\ Len(Val(buffer)) = BinSize
    /\ \A i \in Offsets :
           ByteAt(Val(buffer), i) = IF i < Min(Len(file), BinSize) THEN ByteAt(file, i) ELSE 0

\* C6: loading a file of any length as binary A or B stores a buffer as long
\* as an image with the first bytes of the file followed by zeros.
C6_BinaryNormalization ==
    [][\A n \in FileLengths :
           /\ load_binary_a(ImageFile("a", n))
                  => NormalizedFrom(binary_data_a', ImageBytes("a", n))
           /\ load_binary_b(ImageFile("b", n))
                  => NormalizedFrom(binary_data_b', ImageBytes("b", n))]_vars

\* C6 witness: binary A loaded from an empty file (all zeros), binary B from
\* a file at least as long as an image.
C6_Witness ==
    /\ binary_data_a # None /\ \A i \in Offsets : ByteAt(Val(binary_data_a), i) = 0
    /\ binary_data_b # None /\ \A i \in Offsets : ByteAt(Val(binary_data_b), i) # 0

\* C7 as stated: export_merged_binary is refused, with no buffer and nothing
\* changed, when an image was never loaded, and completes with a buffer in
\* every other case.
C7_RefusedOnlyWithoutImages ==
    [][export_merged_binary =>
           IF binary_data_a = None \/ binary_data_b = None
           THEN /\ export_status' = "refused" /\ merged_data' = None
                /\ UNCHANGED <<map_entries, table_rows, list_A, list_B,
                               binary_data_a, binary_data_b>>
           ELSE export_status' = "merged" /\ merged_data' # None]_vars

----------------------------------------------------------------------------
(* Properties of the byte window, checked under SpecView *)

\* The window the picture shows, lines 825-826.
view_start == start_offset_slider * Granule

view_end == end_offset_slider * Granule

\* C14: in every state reached by slider moves, text edits (any number,
\* negative or beyond the range, or no number) and loads of documents with
\* any base offset, view_start and view_end are multiples of 16 with
\* 0 <= view_start < view_end <= the size of the viewed range.
C14_ByteWindow ==
    /\ view_start % 16 = 0 /\ view_end % 16 = 0
    /\ 0 <= view_start /\ view_start < view_end /\ view_end <= ViewSize

\* C14 witness: the load of a document whose base offset lies beyond the
\* range left the start box showing that offset and the start slider one
\* step below an end slider that was moved down before.
C14_Witness ==
    /\ start_offset_box = Some(ViewSize + Granule)
    /\ end_offset_slider < SliderMaximum
    /\ start_offset_slider = end_offset_slider - 1
    /\ start_offset_slider > 0

----------------------------------------------------------------------------
(* Properties of reloads and of the check boxes, checked under SpecToggle *)

\* The step loads a document for side A, for side B.
IsLoadA ==
    /\ list_B' = list_B
    /\ \/ load_file_a(Document(0, list_A'))
       \/ load_file_a(Malformed)

IsLoadB ==
    /\ list_A' = list_A
    /\ \/ load_file_b(Document(0, list_B'))
       \/ load_file_b(Malformed)

\* The table the reconciliation makes of two lists, as filter_maps numbers
\* its rows.
Reconciled(listA, listB) ==
    SetRowIndex(update_map_entries_from_files(listA, DictOf(listA), listB),
                1, 0, TRUE, TRUE, TRUE)

\* Some entry of the table has another checked flag than the reconciliation
\* of the two lists gives it: the user has toggled it.
ToggledSinceLoad ==
    /\ Len(map_entries) = Len(Reconciled(list_A, list_B))
    /\ \E i \in 1..Len(map_entries) :
           map_entries[i].checked # Reconciled(list_A, list_B)[i].checked

\* C11: after a load of side A or of side B, whatever was toggled before,
\* the table is the reconciliation of the two current lists: no entry,
\* checked flag, category or second_name of the table before is kept.
C11_ReloadReplacesTable ==
    [][(IsLoadA \/ IsLoadB) => map_entries' = Reconciled(list_A', list_B')]_vars

\* C11 witness: the state a reload starts from (a reload leaves no trace of
\* the toggles before it): the user has unchecked an entry with both sides
\* and checked an entry with one side.
C11_Witness ==
    /\ ToggledSinceLoad
    /\ \E e \in Entries : HasA(e) /\ HasB(e) /\ ~e.checked
    /\ \E e \in Entries : (HasA(e) # HasB(e)) /\ e.checked

\* C12 as stated: the load of a malformed document for a side yields the
\* empty list and leaves the list of that side and the table (entries,
\* categories, checked flags) as they were.
C12_MalformedKeepsState ==
    [][/\ load_file_a(Malformed) =>
              (parse_xdf(Malformed) = <<>> /\ list_A' = list_A /\ map_entries' = map_entries)
       /\ load_file_b(Malformed) =>
              (parse_xdf(Malformed) = <<>> /\ list_B' = list_B /\ map_entries' = map_entries)]_vars

\* The title of the entry a row displays: its file A column, or its file B
\* column when the entry has no A side (lines 988-989).
RowTitle(row) ==
    IF table_rows[row + 1].file_a # "" THEN table_rows[row + 1].file_a
    ELSE table_rows[row + 1].file_b

\* e has the address_a of p, when p has one, or the address_b of p, when p
\* has one.
SharesAddress(p, e) ==
    \/ (p.address_a # None /\ e.address_a = p.address_a)
    \/ (p.address_b # None /\ e.address_b = p.address_b)

\* C13 as stated: after the user toggles the box of an entry p (with an A
\* side, a B side or both) to v, p and every other entry that shares an
\* address with p have checked = v.
C13_LinkedToggledTogether ==
    [][\A row \in 0..(Len(table_rows) - 1) :
           check_box_clicked(row) =>
               \A i \in 1..Len(map_entries) :
                   map_entries[i].title = RowTitle(row) =>
                       /\ map_entries'[i].checked = ~table_rows[row + 1].check
                       /\ \A j \in 1..Len(map_entries) :
                              (j # i /\ SharesAddress(map_entries[i], map_entries[j]))
                                  => map_entries'[j].checked = ~table_rows[row + 1].check]_vars

\* C19 as stated, for the call of update_linked_map_checks the handler of a
\* click makes (pivot: the title of the file A column, v: the new state of
\* the box): every entry other than the pivot that shares an address with
\* it gets checked = v; the checked flag of every other entry (but the ones
\* the handler itself writes, lines 1053-1057) and every other field of
\* every entry stay as they were.
C19_PropagationEffectAndFrame ==
    [][\A row \in 0..(Len(table_rows) - 1) :
           (check_box_clicked(row) /\ table_rows[row + 1].file_a # "") =>
               LET pivot == table_rows[row + 1].file_a
                   v == ~table_rows[row + 1].check
               IN /\ Len(map_entries') = Len(map_entries)
                  /\ \A i \in 1..Len(map_entries) :
                         LET e == map_entries[i]
                             linked == SharesAddress(
                                           map_entries[IndexOf(map_entries, pivot)], e)
                         IN /\ [map_entries'[i] EXCEPT !.checked = e.checked] = e
                            /\ (e.title # pivot /\ linked) => map_entries'[i].checked = v
                            /\ (e.title \notin {pivot, table_rows[row + 1].file_b}
                                   /\ ~linked)
                                  => map_entries'[i].checked = e.checked]_vars

\* The two name columns of the row name one entry: the handler of a click
\* on its box writes the checked flag of that entry alone at lines 1053-1057.
NamesOneEntry(row) ==
    \/ table_rows[row + 1].file_a = ""
    \/ table_rows[row + 1].file_b \in {"", table_rows[row + 1].file_a}

\* C20 as stated, for the rows that name one entry: a click on the box of an
\* entry changes the checked flag of that entry and of entries that share
\* an address with it only; an entry linked to it through another entry
\* keeps its flag.
C20_OneHopLinkage ==
    [][\A row \in 0..(Len(table_rows) - 1) :
           (check_box_clicked(row) /\ NamesOneEntry(row)) =>
               \A i \in 1..Len(map_entries) :
                   map_entries'[i].checked # map_entries[i].checked =>
                       \/ map_entries[i].title = RowTitle(row)
                       \/ SharesAddress(
                              map_entries[IndexOf(map_entries, RowTitle(row))],
                              map_entries[i])]_vars

----------------------------------------------------------------------------
(* Properties of the picture, checked under SpecLayout *)

\* The pixels the picture draws the byte at address a in, in this state.
BlockOf(a) ==
    DrawnBlock(visualization_width, visualization_height, view_start, view_end, a)

\* The addresses the picture draws: address - view_start < total_bytes.
RenderedAddresses == {a \in view_start..(view_end - 1) : BlockOf(a) # {}}

\* The last click hit a pixel of the picture.
ClickedInside ==
    /\ map_click # None
    /\ Val(map_click).x < visualization_width
    /\ Val(map_click).y < visualization_height

\* C15 as stated, for the pixel of the last click: (1) when the pixel lies
\* in the block drawn for a rendered address, the hit test returns that
\* address; (2) when the pixel lies in the picture and the hit test returns
\* an address, that address is drawn in a block that holds the pixel.
C15_RoundTripLayout ==
    ClickedInside =>
        LET pixel == <<Val(map_click).x, Val(map_click).y>>
            hit == Val(map_click).address
        IN /\ \A a \in RenderedAddresses : pixel \in BlockOf(a) => hit = Some(a)
           /\ hit # None => pixel \in BlockOf(Val(hit))

----------------------------------------------------------------------------
(* Properties of the steps of the reconciliation, checked under            *)
(* SpecReconcile. The table after the step that handles a descriptor m of   *)
(* list_B is the table of the list that ends with m, and every list that    *)
(* ends with m is loaded.                                                   *)

TitlesOfA == {list_A[i].title : i \in 1..Len(list_A)}

\* The descriptors of list_A with the start and size of m and another title.
AliasesOf(m) ==
    {i \in 1..Len(list_A) : /\ list_A[i].start = m.start
                            /\ list_A[i].size = m.size
                            /\ list_A[i].title # m.title}

FirstAliasOf(m) == list_A[CHOOSE i \in AliasesOf(m) : \A j \in AliasesOf(m) : i <= j]

\* The title of list_B[j] is a key of the table when the reconciliation
\* comes to it: file A declares it, or an earlier descriptor of list_B with
\* that title and no alias made a B-only entry of it.
IsKeyAt(j) ==
    \/ list_B[j].title \in TitlesOfA
    \/ \E k \in 1..(j - 1) :
           list_B[k].title = list_B[j].title /\ AliasesOf(list_B[k]) = {}

\* The key of the entry the reconciliation writes list_B[j] to.
TargetOf(j) ==
    IF ~IsKeyAt(j) /\ AliasesOf(list_B[j]) # {}
    THEN FirstAliasOf(list_B[j]).title
    ELSE list_B[j].title

EntryOf(t) == map_entries[CHOOSE i \in 1..Len(map_entries) : map_entries[i].title = t]

\* The B side of e is the descriptor m.
HoldsB(e, m) ==
    /\ e.address_b = Some(m.start)
    /\ e.size_b = Some(m.size)
    /\ e.description_b = m.description

\* The entry is checked and green when its two sides have the same address
\* and size, yellow otherwise.
CheckedByRegion(e) ==
    /\ e.checked
    /\ e.category = IF e.address_a = e.address_b /\ e.size_a = e.size_b
                    THEN "green" ELSE "yellow"

\* C16 as stated: for every descriptor of list_B whose title file A
\* declares, the entry of that title has the descriptor as its B side, is
\* checked, and is green when both sides have the same address and size and
\* yellow otherwise.
C16_TitleMatchAfterReconcile ==
    \A j \in 1..Len(list_B) :
        list_B[j].title \in TitlesOfA =>
            /\ HoldsB(EntryOf(list_B[j].title), list_B[j])
            /\ CheckedByRegion(EntryOf(list_B[j].title))

\* C16 amended: the same for every such descriptor after which list_B holds
\* no descriptor written to the same entry (one with the same title, or one
\* that is alias-matched to the entry).
C16_TitleMatch ==
    \A j \in 1..Len(list_B) :
        (/\ list_B[j].title \in TitlesOfA
         /\ \A k \in (j + 1)..Len(list_B) : TargetOf(k) # list_B[j].title) =>
            /\ HoldsB(EntryOf(list_B[j].title), list_B[j])
            /\ CheckedByRegion(EntryOf(list_B[j].title))

\* C16 witness: two title matches in one table, one green, one yellow with
\* another size on side B.
C16_Witness ==
    /\ Len(list_B) = 2
    /\ list_B[1].title \in TitlesOfA /\ list_B[2].title \in TitlesOfA
    /\ list_B[1].title # list_B[2].title
    /\ \E e \in Entries : e.category = "green" /\ e.checked
    /\ \E e \in Entries : e.category = "yellow" /\ e.checked /\ e.size_a # e.size_b

\* The last descriptor of list_B, the one the last step handled, has a title
\* that was no key of the table and an alias in list_A.
LastIsAliasMatch ==
    /\ list_B # <<>>
    /\ ~IsKeyAt(Len(list_B))
    /\ AliasesOf(list_B[Len(list_B)]) # {}

\* C17: the step that handles a descriptor m of list_B whose title is no key
\* of the table and whose (start, size) a descriptor of list_A with another
\* title has makes no entry keyed by the title of m; the entry of a matched
\* A descriptor gets the B side of m, category yellow, checked and the title
\* of m as second_name.
C17_AliasMatch ==
    LastIsAliasMatch =>
        LET m == list_B[Len(list_B)] IN
        /\ m.title \notin Keys(map_entries)
        /\ \E i \in AliasesOf(m) :
               LET e == EntryOf(list_A[i].title)
               IN /\ HoldsB(e, m)
                  /\ e.category = "yellow" /\ e.checked
                  /\ e.second_name = Some(m.title)

\* C17 witness: the alias match of the last descriptor went to an entry the
\* descriptor before it was title-matched to, at another address.
C17_Witness ==
    /\ LastIsAliasMatch
    /\ Len(list_B) = 2
    /\ list_B[1].title = FirstAliasOf(list_B[2]).title
    /\ list_B[1].start # list_B[2].start
    /\ EntryOf(list_B[1].title).second_name = Some(list_B[2].title)

\* C18: when several descriptors of list_A have the (start, size) of a
\* descriptor m of list_B that no title matches, the step that handles m
\* writes m to the entry of the first of them in list_A order and leaves
\* every other entry as the table before the step had it.
C18_AliasTieBreak ==
    (LastIsAliasMatch /\ Cardinality(AliasesOf(list_B[Len(list_B)])) >= 2) =>
        LET m == list_B[Len(list_B)]
            first == FirstAliasOf(m).title
            before == Reconciled(list_A, SubSeq(list_B, 1, Len(list_B) - 1))
        IN /\ HoldsB(EntryOf(first), m)
           /\ EntryOf(first).second_name = Some(m.title)
           /\ Len(map_entries) = Len(before)
           /\ \A i \in 1..Len(map_entries) :
                  map_entries[i].title # first => map_entries[i] = before[i]

\* C18 witness: file A declares two titles at one place, file B a third
\* title there: the first entry has it as second_name, the second entry has
\* no B side.
C18_Witness ==
    /\ LastIsAliasMatch
    /\ Len(list_A) = 2 /\ list_A[1].title # list_A[2].title
    /\ AliasesOf(list_B[Len(list_B)]) = {1, 2}
    /\ EntryOf(list_A[1].title).second_name = Some(list_B[Len(list_B)].title)
    /\ ~HasB(EntryOf(list_A[2].title))

----------------------------------------------------------------------------
(* Properties of the layout parameters, checked under SpecSurface. The      *)
(* picture on the screen is the one update_visual_representation drew for   *)
(* the window and the surface of the state: every handler that changes one  *)
(* of them draws it again (lines 734, 1183, 1236).                          *)

\* The scale and bytes_per_row the picture of this state was drawn with.
RenderedLayout ==
    Layout(visualization_width, visualization_height,
           start_offset_slider * Granule, end_offset_slider * Granule)

\* bytes_per_row as the layout engine defines it: max(1, width // scale).
BytesPerRow(width, scale) == IF width \div scale >= 1 THEN width \div scale ELSE 1

\* l is the scale of the picture and the bytes_per_row that goes with it.
SameAsRendered(l) ==
    /\ l.scale = RenderedLayout.scale
    /\ l.bytes_per_row = RenderedLayout.bytes_per_row
    /\ l.bytes_per_row = BytesPerRow(visualization_width, l.scale)

\* C21 as stated: the scale and bytes_per_row a hit test or a highlight
\* computes are those the picture was drawn with, and bytes_per_row is
\* max(1, width // scale), also when the scale is larger than the width.
C21_SameLayoutParameters ==
    /\ (map_click # None /\ Val(map_click).layout # None)
           => SameAsRendered(Val(Val(map_click).layout))
    /\ map_hover # None => SameAsRendered(Val(map_hover).layout)

\* rendered_total_bytes of the picture of this state: min(range_len,
\* bytes_per_row * max_rows), the number of bytes of the window it draws.
RenderedTotalBytes ==
    LET scale == RenderedLayout.scale
        rows == visualization_height \div scale
        max_rows == IF rows >= 1 THEN rows ELSE 1
        fits == BytesPerRow(visualization_width, scale) * max_rows
        range_len == (end_offset_slider - start_offset_slider) * Granule
    IN IF range_len <= fits THEN range_len ELSE fits

\* The relative offset the hit test of the click c computed for its pixel.
RelativeOffset(c) ==
    (c.y \div Val(c.layout).scale) * Val(c.layout).bytes_per_row
        + (c.x \div Val(c.layout).scale)

\* C22 as stated: the hit test of a pixel returns no address when the pixel
\* is right of or below the picture or when its relative offset is at least
\* rendered_total_bytes; an address it returns is one of the
\* rendered_total_bytes addresses the picture draws.
C22_HitTestBounds ==
    map_click # None =>
        LET c == Val(map_click) IN
        /\ (c.x >= visualization_width \/ c.y >= visualization_height)
               => c.address = None
        /\ (c.layout # None /\ RelativeOffset(c) >= RenderedTotalBytes)
               => c.address = None
        /\ c.address # None
               => Val(c.address) - start_offset_slider * Granule < RenderedTotalBytes

----------------------------------------------------------------------------
(* The view across a load, checked under SpecView *)

\* C23 as stated: the load of a definition document, whatever its base
\* offset, leaves view_start and view_end as they were.
C23_ParseKeepsView ==
    [][\A doc \in Documents(ViewOffsets, ListsView) :
           (load_file_a(doc) \/ load_file_b(doc)) =>
               (view_start' = view_start /\ view_end' = view_end)]_vars

----------------------------------------------------------------------------
(* Properties of the parse, checked under SpecParse *)

\* A numeric attribute read with 0 for one that is missing or no number.
Lenient(attribute) == IF attribute.kind = "number" THEN attribute.value ELSE 0

\* The descriptors a parse that takes 0 for every missing or malformed
\* numeric attribute emits for the elements of doc.
LenientDescriptors(doc) ==
    LET offset == IF doc.baseoffset = None THEN 0
                  ELSE Lenient(Val(doc.baseoffset).offset)
                           - Lenient(Val(doc.baseoffset).subtract)
    IN {Descriptor(doc.tables[i].title,
                   offset + Lenient(Val(doc.tables[i].embedded_data).mmedaddress),
                   Lenient(Val(doc.tables[i].embedded_data).mmedrowcount)
                       * Lenient(Val(doc.tables[i].embedded_data).mmedcolcount)
                       * (Lenient(Val(doc.tables[i].embedded_data).mmedelementsizebits) \div 8),
                   doc.tables[i].description) :
           i \in {k \in 1..Len(doc.tables) : doc.tables[k].embedded_data # None}}
       \cup
       {Descriptor(doc.constants[i].title,
                   offset + Lenient(Val(doc.constants[i].embedded_data).mmedaddress),
                   Lenient(Val(doc.constants[i].embedded_data).mmedelementsizebits) \div 8,
                   doc.constants[i].description) :
           i \in {k \in 1..Len(doc.constants) : doc.constants[k].embedded_data # None}}
       \cup
       {Descriptor(doc.patches[i].title,
                   offset + Lenient(doc.patches[i].address),
                   Lenient(doc.patches[i].datasize),
                   doc.patches[i].description) : i \in 1..Len(doc.patches)}

\* C24 as stated: the load of a well-formed document does not abort, and
\* the list it leaves holds one descriptor for every element of the document
\* that has data, with 0 in the place of every numeric attribute that is
\* missing or no number.
C24_LocalRecovery ==
    [][\A doc \in DocumentsParse \ {Malformed} :
           load_file_a(doc) =>
               /\ parse_error' = "none"
               /\ {list_A'[i] : i \in 1..Len(list_A')} = LenientDescriptors(doc)]_vars

\* The place of an element in the documents of SpecParse, by its title:
\* the table, the first constant, the second constant, the patch entry.
EmissionRank(title) ==
    CASE title = "T" -> 1 [] title = "C" -> 2 [] title = "D" -> 3 [] title = "P" -> 4

\* C25: the list a parse returned is ascending by start, descriptors with
\* the same start are in the order the parse emitted them, and every
\* descriptor ends at start + size.
C25_ParseOrdering ==
    /\ \A i \in 1..Len(list_A) : \A j \in 1..Len(list_A) :
           i < j =>
               /\ list_A[i].start <= list_A[j].start
               /\ list_A[i].start = list_A[j].start
                      => EmissionRank(list_A[i].title) < EmissionRank(list_A[j].title)
    /\ \A i \in 1..Len(list_A) : list_A[i].end = list_A[i].start + list_A[i].size

\* C25 witness: a list of four descriptors in which the sort moved the
\* second constant before the first and two descriptors of one start follow
\* each other in the order of the document.
C25_Witness ==
    /\ Len(list_A) = 4
    /\ \E i \in 1..4 : \E j \in 1..4 :
           i < j /\ list_A[i].title = "D" /\ list_A[j].title = "C"
    /\ \E i \in 1..3 : list_A[i].start = list_A[i + 1].start

----------------------------------------------------------------------------
(* Properties of the table right after a reconciliation, checked under      *)
(* SpecReconcile, where every state is the state after a load.              *)

Kept(m) ==
    \E e \in Entries :
        /\ e.address_b = Some(m.start) /\ e.size_b = Some(m.size)
        /\ (e.title = m.title \/ e.second_name = Some(m.title))

\* C27 as stated: the table holds every descriptor of list_B, also when
\* several of them match one entry.
C27_NoDescriptorLost ==
    \A j \in 1..Len(list_B) : Kept(list_B[j])

\* C27 amended: the table holds every descriptor of list_B after which
\* list_B has no descriptor written to the same entry.
C27_LastDescriptorKept ==
    \A j \in 1..Len(list_B) :
        (\A k \in (j + 1)..Len(list_B) : TargetOf(k) # TargetOf(j))
            => Kept(list_B[j])

\* C27 witness: two descriptors of list_B with different regions went to
\* one entry, the first by its title and the second as an alias; the table
\* holds the second.
C27_Witness ==
    /\ Len(list_B) = 2
    /\ TargetOf(1) = TargetOf(2)
    /\ list_B[1].title # list_B[2].title
    /\ list_B[1].start # list_B[2].start
    /\ Kept(list_B[2]) /\ ~Kept(list_B[1])

----------------------------------------------------------------------------
(* The check boxes and the table, checked under SpecCoherence *)

\* C28 as stated: the check box of every displayed row shows the checked
\* flag of the entry the row displays.
C28_CheckboxCoherence ==
    \A row \in 0..(Len(table_rows) - 1) :
        table_rows[row + 1].check
            = map_entries[IndexOf(map_entries, RowTitle(row))].checked

----------------------------------------------------------------------------
(* The handling of one click, checked under SpecHandler *)

\* C29: the handling of a check box change ends: whenever calls of
\* update_linked_map_checks are in progress, a state without any follows,
\* after at most one notification for every displayed row; and all the
\* checked flags written since the click were written the same value.
C29_ToggleTerminates ==
    /\ [](check_handler.notifications <= Len(table_rows))
    /\ [](Cardinality(check_handler.written) <= 1)
    /\ (check_handler.stack # <<>>) ~> (check_handler.stack = <<>>)

\* C29 witness: a handling is over in which the propagation notified the
\* handler again for two more rows, one of them from inside the other.
C29_Witness ==
    /\ check_handler.stack = <<>>
    /\ check_handler.notifications = 3
    /\ Cardinality(check_handler.written) = 1

----------------------------------------------------------------------------
(* The binary buffers and the export button, checked under Spec *)

\* C30: the export button is enabled exactly when binary A and binary B are
\* both loaded; a loaded binary is never absent again, whatever is done next,
\* a load of an unreadable file included; and a side holds a binary only if
\* its definition file was loaded, which is what enables its binary button.
C30_ExportAvailability ==
    /\ [](export_button <=> (binary_data_a # None /\ binary_data_b # None))
    /\ [][/\ binary_data_a # None => binary_data_a' # None
          /\ binary_data_b # None => binary_data_b' # None
          /\ load_binary_a(Unreadable) => binary_data_a' = binary_data_a
          /\ load_binary_b(Unreadable) => binary_data_b' = binary_data_b]_vars
    /\ [](binary_data_a # None => load_binary_a_button)
    /\ [](binary_data_b # None => load_binary_b_button)

\* C30 witness: both binaries are loaded and the export button is enabled.
C30_Witness ==
    /\ binary_data_a # None /\ binary_data_b # None
    /\ load_binary_a_button /\ load_binary_b_button
    /\ export_button

====
